---- MODULE Spec2Model ----
(***************************************************************************)
(* A model of the exec-session manager, the approval gate and the          *)
(* intercepted tools of codex-temporal-go:                                 *)
(*   - internal/execsession/buffer.go : HeadTailBuffer                     *)
(*   - internal/execsession/store.go  : Store (id allocation, eviction)    *)
(*   - internal/tools/handlers/unified_exec.go : exec_command, write_stdin *)
(*   - internal/workflow/approval.go : classification, approval decision   *)
(*   - internal/workflow/escalation.go : escalation after a sandbox denial *)
(*   - internal/workflow/user_input.go : request_user_input                *)
(*   - internal/workflow/plan.go : update_plan                             *)
(*   - internal/cli/app.go, poller.go : the CLI rendering the log, its     *)
(*     main loop and input reader                                          *)
(*   - internal/workflow/util.go : turn ids, the repeat-detection key      *)
(*   - context compaction: the auto-compact limit, the rebuilt history     *)
(* Each subsystem has its own specification (SpecBuffer, SpecStore,        *)
(* SpecStdin, SpecReserve, SpecYield, SpecClassify, SpecDecision,          *)
(* SpecEscalation, SpecUserInput, SpecGates, SpecPlan, SpecIntercepts,     *)
(* SpecStatus, SpecPairing, SpecOrder, SpecRender, SpecMainLoop,           *)
(* SpecCompaction, SpecTurns, SpecKeys); the variables of the other        *)
(* subsystems stay at their initial value.                                 *)
(***************************************************************************)
EXTENDS Integers, Sequences, FiniteSets, TLC

VARIABLES
    buf,        \* the HeadTailBuffer object (its fields)
    pushed,     \* history: every byte ever pushed, in push order
    sinceDrain, \* history: the bytes pushed since the last DrainChunks
    drains,     \* history: number of DrainChunks calls so far
    bufOp,      \* history: the last buffer operation and its argument/result
    sessions,   \* Store.sessions: process id -> session object (a handle into heap)
    reserved,   \* Store.reserved: the set of reserved process ids
    heap,       \* the ExecSession objects: handle -> fields
    exec,       \* the exec_command activities: position and locals of each
    stdin,      \* the write_stdin activities: position and locals of each
    live,       \* history: process id -> number of allocations of it that were
                \* made (AllocateID, Store) and not yet released or removed
    removed,    \* history: the ids write_stdin removed and no Store stored since
    call        \* the pure functions: the last call, its arguments and results

bufVars == <<buf, pushed, sinceDrain, drains, bufOp>>

storeVars == <<sessions, reserved, heap, exec, stdin, live, removed>>

vars == <<buf, pushed, sinceDrain, drains, bufOp,
          sessions, reserved, heap, exec, stdin, live, removed, call>>

----------------------------------------------------------------------------
(* Bounds of the buffer model *)

\* largest maxBytes a buffer is created with (0 and 1 included)
MaxCap == 5
\* longest chunk handed to Push
MaxChunk == 4
\* pushes stop once this many bytes were written
MaxTotal == 8
\* at most this many DrainChunks calls
MaxDrains == 1

\* byte values (the code never inspects them)
Byte == {0, 1}

Chunks == UNION {[1..n -> Byte] : n \in 0..MaxChunk}

----------------------------------------------------------------------------
(* Sequence helpers: Go slice expressions *)

\* s[from:] with a 0-based index
SliceFrom(s, from) == SubSeq(s, from + 1, Len(s))

\* s[:to] with a 0-based exclusive end
SliceTo(s, to) == SubSeq(s, 1, to)

RECURSIVE Flatten(_)
\* append(out, c...) over a list of chunks
Flatten(chunks) ==
    IF chunks = <<>> THEN <<>> ELSE Head(chunks) \o Flatten(Tail(chunks))

\* copyBytes: a fresh slice with the same bytes
copyBytes(b) == [i \in 1..Len(b) |-> b[i]]

----------------------------------------------------------------------------
(* HeadTailBuffer *)

NewHeadTailBuffer(maxBytes) ==
    LET headBudget == maxBytes \div 2
        tailBudget == maxBytes - headBudget
    IN [maxBytes |-> maxBytes, headBudget |-> headBudget, tailBudget |-> tailBudget,
        head |-> <<>>, tail |-> <<>>, headBytes |-> 0, tailBytes |-> 0,
        omitted |-> 0, totalEver |-> 0]

RECURSIVE trimLoop_KeepsFront(_, _)
\* mutant: a partly trimmed chunk keeps its front instead of its end
trimLoop_KeepsFront(b, excess) ==
    IF excess > 0 /\ Len(b.tail) > 0
    THEN LET front == b.tail[1] IN
         IF excess >= Len(front)
         THEN trimLoop_KeepsFront([b EXCEPT !.tailBytes = @ - Len(front),
                                            !.omitted = @ + Len(front),
                                            !.tail = Tail(@)],
                                  excess - Len(front))
         ELSE [b EXCEPT !.tail = <<SliceTo(front, Len(front) - excess)>> \o Tail(@),
                        !.tailBytes = @ - excess,
                        !.omitted = @ + excess]
    ELSE b

RECURSIVE trimLoop(_, _)
\* the for loop of trimTailToBudget, with its local variable excess
trimLoop(b, excess) ==
    IF excess > 0 /\ Len(b.tail) > 0
    THEN LET front == b.tail[1] IN
         IF excess >= Len(front)
         THEN trimLoop([b EXCEPT !.tailBytes = @ - Len(front),
                                 !.omitted = @ + Len(front),
                                 !.tail = Tail(@)],
                       excess - Len(front))
         ELSE [b EXCEPT !.tail = <<SliceFrom(front, excess)>> \o Tail(@),
                        !.tailBytes = @ - excess,
                        !.omitted = @ + excess]
    ELSE b

\* mutant: the tail is never trimmed
trimTailToBudget_NoTrim(b) == b

trimTailToBudget(b) == trimLoop(b, b.tailBytes - b.tailBudget)

\* mutant: an oversized chunk replaces the tail without counting the bytes it displaces
pushToTail_ForgetsOldTail(b, chunk) ==
    IF b.tailBudget = 0
    THEN [b EXCEPT !.omitted = @ + Len(chunk)]
    ELSE IF Len(chunk) >= b.tailBudget
    THEN LET start == Len(chunk) - b.tailBudget
             kept == SliceFrom(chunk, start)
             dropped == Len(chunk) - Len(kept)
         IN [b EXCEPT !.omitted = @ + dropped,
                      !.tail = <<kept>>,
                      !.tailBytes = Len(kept)]
    ELSE trimTailToBudget([b EXCEPT !.tailBytes = @ + Len(chunk),
                                    !.tail = Append(@, chunk)])

pushToTail(b, chunk) ==
    IF b.tailBudget = 0
    THEN [b EXCEPT !.omitted = @ + Len(chunk)]
    ELSE IF Len(chunk) >= b.tailBudget
    THEN LET start == Len(chunk) - b.tailBudget
             kept == SliceFrom(chunk, start)
             dropped == Len(chunk) - Len(kept)
         IN [b EXCEPT !.omitted = @ + b.tailBytes + dropped,
                      !.tail = <<kept>>,
                      !.tailBytes = Len(kept)]
    ELSE trimTailToBudget([b EXCEPT !.tailBytes = @ + Len(chunk),
                                    !.tail = Append(@, chunk)])

\* mutant: the split of a chunk across head and tail loses the byte at the boundary
pushUnlocked_SplitOffByOne(b, chunk) ==
    IF b.maxBytes = 0
    THEN [b EXCEPT !.omitted = @ + Len(chunk)]
    ELSE IF b.headBytes < b.headBudget
    THEN LET remaining == b.headBudget - b.headBytes IN
         IF Len(chunk) <= remaining
         THEN [b EXCEPT !.headBytes = @ + Len(chunk),
                        !.head = Append(@, copyBytes(chunk))]
         ELSE LET headPart == SliceTo(chunk, remaining)
                  tailPart == SliceFrom(chunk, remaining + 1)
                  b1 == IF Len(headPart) > 0
                        THEN [b EXCEPT !.headBytes = @ + Len(headPart),
                                       !.head = Append(@, copyBytes(headPart))]
                        ELSE b
              IN pushToTail(b1, copyBytes(tailPart))
    ELSE pushToTail(b, copyBytes(chunk))

pushUnlocked(b, chunk) ==
    IF b.maxBytes = 0
    THEN [b EXCEPT !.omitted = @ + Len(chunk)]
    ELSE IF b.headBytes < b.headBudget
    THEN LET remaining == b.headBudget - b.headBytes IN
         IF Len(chunk) <= remaining
         THEN [b EXCEPT !.headBytes = @ + Len(chunk),
                        !.head = Append(@, copyBytes(chunk))]
         ELSE LET headPart == SliceTo(chunk, remaining)
                  tailPart == SliceFrom(chunk, remaining)
                  b1 == IF Len(headPart) > 0
                        THEN [b EXCEPT !.headBytes = @ + Len(headPart),
                                       !.head = Append(@, copyBytes(headPart))]
                        ELSE b
              IN pushToTail(b1, copyBytes(tailPart))
    ELSE pushToTail(b, copyBytes(chunk))

\* Push: the buffer after b.Push(chunk)
PushBuf(b, chunk) ==
    IF Len(chunk) = 0
    THEN b
    ELSE pushUnlocked([b EXCEPT !.totalEver = @ + Len(chunk)], chunk)

toBytesUnlocked(b) ==
    LET size == b.headBytes + b.tailBytes IN
    IF size = 0 THEN <<>> ELSE Flatten(b.head) \o Flatten(b.tail)

Snapshot(b) == toBytesUnlocked(b)

RetainedBytes(b) == b.headBytes + b.tailBytes

OmittedBytes(b) == b.omitted

TotalWritten(b) == b.totalEver

\* DrainChunks: the chunks returned, and the buffer afterwards
DrainOut(b) == b.head \o b.tail

DrainBuf(b) ==
    [b EXCEPT !.head = <<>>, !.tail = <<>>, !.headBytes = 0, !.tailBytes = 0,
              !.omitted = 0]

----------------------------------------------------------------------------
(* Session store: constants of store.go *)

MaxSessions == 64

ProtectedCount == 8

MinProcessID == 1000

MaxProcessID == 100000

(* Bounds of the store model *)

\* the store starts with MaxSessions - Headroom sessions in it
Headroom == 1
\* process ids AllocateID can draw beyond those of the initial sessions
NumFresh == 1
\* parallel exec_command activities
NumExec == 2
\* parallel write_stdin activities
NumStdin == 1
\* exec_command calls each activity makes
MaxCalls == 1
\* exec_command calls each activity makes where ids are used again
MaxExecCalls == 2
\* write_stdin calls each activity makes
MaxStdinCalls == 2

Prefill == MaxSessions - Headroom

ExecProcs == 1..NumExec

StdinProcs == 1..NumStdin

\* a nil error
Nil == "nil"

\* a nil *ExecSession (handles start at 1)
NilSession == 0

\* a nil *int; a pointer to the exit code c is <<c>>
NilCode == <<>>

\* the empty string
NoID == <<>>

RECURSIVE Itoa(_)
\* fmt.Sprintf("%d", n) for n >= 0: the decimal digits of n, as a string of digits
Itoa(n) == IF n < 10 THEN <<n>> ELSE Itoa(n \div 10) \o <<n % 10>>

\* the values of rand.Intn(MaxProcessID-MinProcessID) the model draws: the low
\* end of the range (where the initial sessions' ids lie) and its last value
RandSample == (0..(Prefill + NumFresh - 1)) \cup {MaxProcessID - MinProcessID - 1}

\* the LastUsed timestamps of the initial sessions: distinct, increasing
InitialLastUsed(i) == 2 * i

\* the LastUsed a new session can carry when it is stored: older than every
\* initial session, tied with the oldest, tied with the oldest protected one,
\* newer than all
NewLastUsed ==
    {0, InitialLastUsed(1), InitialLastUsed(Prefill - ProtectedCount + 1),
     InitialLastUsed(Prefill) + 1}

\* which of the initial sessions have exited: none, the oldest, the third
\* oldest, all, only the ProtectedCount most recent
ExitedPatterns ==
    {{}, {1}, {3}, 1..Prefill, (Prefill - ProtectedCount + 1)..Prefill}

\* the initial sessions whose process may exit later
ExitableInitial == {1}

ExitCodes == {1}

\* the session_id arguments write_stdin is called with: an initial session, the
\* fresh ids
StdinSample ==
    {MinProcessID} \cup {MinProcessID + Prefill + k : k \in 0..(NumFresh - 1)}

----------------------------------------------------------------------------
(* Tool arguments: inv.Arguments, a map from keys to decoded JSON values *)

\* no arguments
NoArgs == <<>>

\* a JSON number decoded into a float64, in tenths: Float64(15) is 1.5
Float64(tenths) == [type |-> "float64", tenths |-> tenths]

\* a Go int
IntVal(n) == [type |-> "int", val |-> n]

\* a JSON string
StringVal(v) == [type |-> "string", val |-> v]

\* int(n) of a float64 n: the fraction is dropped, towards zero
IntOfFloat(v) ==
    IF v.tenths >= 0 THEN v.tenths \div 10 ELSE 0 - ((0 - v.tenths) \div 10)

\* parseNumberArg
parseNumberArg(args, key, defaultVal) ==
    IF key \notin DOMAIN args THEN defaultVal
    ELSE IF args[key].type = "float64" THEN IntOfFloat(args[key])
    ELSE IF args[key].type \in {"int", "int64"} THEN args[key].val
    ELSE defaultVal

\* chars, _ := inv.Arguments["chars"].(string)
CharsOf(args) ==
    IF "chars" \in DOMAIN args /\ args["chars"].type = "string"
    THEN args["chars"].val
    ELSE ""

\* the chars arguments of the model: an empty poll and a write
CharsSample == {"", "x"}

\* the session_id arguments of the model: a string, zero, a fraction below
\* one, and the ids of StdinSample with and without a fraction
SessionIDSample ==
    {StringVal("abc"), Float64(0), Float64(5)}
    \cup {Float64(10 * n) : n \in StdinSample}
    \cup {Float64(10 * n + 5) : n \in StdinSample}

\* an empty poll of each id of StdinSample
PollArgs ==
    {[session_id |-> Float64(10 * n), chars |-> StringVal("")] : n \in StdinSample}

\* the arguments write_stdin is called with: without and with a session_id
StdinArgs ==
    {[chars |-> StringVal(c)] : c \in CharsSample}
    \cup {[session_id |-> v, chars |-> StringVal(c)] :
             v \in SessionIDSample, c \in CharsSample}

----------------------------------------------------------------------------
(* Yield times: constants of unified_exec.go *)

MinYieldTimeMs == 250

MaxYieldTimeMs == 30000

MinEmptyYieldTimeMs == 5000

DefaultExecYieldMs == 10000

DefaultStdinYieldMs == 250

\* math.Max and math.Min on float64 values that are integers below 2^53, which
\* float64 holds exactly
MathMax(a, b) == IF a >= b THEN a ELSE b

MathMin(a, b) == IF a <= b THEN a ELSE b

\* mutant: no upper limit
clampYieldTime_NoUpper(ms, minMs, maxMs) == MathMax(minMs, ms)

\* clampYieldTime
clampYieldTime(ms, minMs, maxMs) == MathMax(minMs, MathMin(ms, maxMs))

\* handleExecCommand, lines 428-429: the yield time of an exec_command call
ExecYieldMs(args) ==
    clampYieldTime(parseNumberArg(args, "yield_time_ms", DefaultExecYieldMs),
                   MinYieldTimeMs, MaxYieldTimeMs)

\* handleWriteStdin, lines 507-515: the yield time of a write_stdin call
StdinYieldMs(args) ==
    LET chars == CharsOf(args)
        yieldMs == parseNumberArg(args, "yield_time_ms", DefaultStdinYieldMs)
    IN IF chars = ""
       THEN clampYieldTime(yieldMs, MinEmptyYieldTimeMs, MaxYieldTimeMs)
       ELSE clampYieldTime(yieldMs, MinYieldTimeMs, MaxYieldTimeMs)

\* the yield times of the model, in ms: around every limit and default
MsSample ==
    {0 - 1, 0, 1,
     MinYieldTimeMs - 1, MinYieldTimeMs, MinYieldTimeMs + 1,
     MinEmptyYieldTimeMs - 1, MinEmptyYieldTimeMs, MinEmptyYieldTimeMs + 1,
     DefaultExecYieldMs,
     MaxYieldTimeMs - 1, MaxYieldTimeMs, MaxYieldTimeMs + 1}

\* the limits clampYieldTime is called with, and two more
LimitSample == {0, MinYieldTimeMs, MinEmptyYieldTimeMs, MaxYieldTimeMs, MaxYieldTimeMs + 1}

\* the yield_time_ms arguments of the model: whole and fractional JSON
\* numbers, a Go int, a string
YieldSample ==
    {Float64(10 * ms) : ms \in MsSample}
    \cup {Float64(10 * ms + 5) : ms \in MsSample}
    \cup {IntVal(ms) : ms \in MsSample}
    \cup {StringVal("soon")}

\* the arguments of the model as far as the yield time goes: chars absent,
\* empty or not, yield_time_ms absent or not
YieldArgs ==
    {NoArgs}
    \cup {[chars |-> StringVal(c)] : c \in CharsSample}
    \cup {[yield_time_ms |-> y] : y \in YieldSample}
    \cup {[chars |-> StringVal(c), yield_time_ms |-> y] : c \in CharsSample, y \in YieldSample}

----------------------------------------------------------------------------
(* Approval gate: approval.go *)

\* models.ApprovalMode: unset, and the three modes
ApprovalNever == "never"

ApprovalOnFailure == "on-failure"

ApprovalUnlessTrusted == "unless-trusted"

Modes == {"", ApprovalNever, ApprovalOnFailure, ApprovalUnlessTrusted}

\* tools.ExecApprovalRequirement
ApprovalSkip == "skip"

ApprovalNeeded == "needed"

ApprovalForbidden == "forbidden"

\* execpolicy.Decision, and a value that is none of the three
DecisionAllow == "allow"

DecisionPrompt == "prompt"

DecisionForbidden == "forbidden"

Decisions == {DecisionAllow, DecisionPrompt, DecisionForbidden, "other"}

\* a JSON array
ArrayVal(v) == [type |-> "array", val |-> v]

\* a JSON boolean
BoolVal(b) == [type |-> "bool", val |-> b]

\* Arguments that json.Unmarshal rejects, and Arguments that hold an object
InvalidJSON == [json |-> "invalid"]

ObjectJSON(obj) == [json |-> "object", obj |-> obj]

\* command lines, as their words
Ls == <<"ls">>

RmRf == <<"rm", "-rf", "/">>

\* no exec policy manager
NilMgr == <<>>

\* policyRules: none, rules that do not load, rules that load into a manager.
\* A manager is what it answers for each program: a decision and a
\* justification, which may be empty
Programs == {"ls", "rm"}

Evaluations ==
    {[Decision |-> d, Justification |-> ""] : d \in Decisions}
    \cup {[Decision |-> DecisionForbidden, Justification |-> "destructive"]}

PolicySample ==
    {[src |-> "none"], [src |-> "invalid"]}
    \cup {[src |-> "rules", mgr |-> m] : m \in [Programs -> Evaluations]}

\* execpolicy.LoadExecPolicyFromSource, lines 60-66: the manager or nil
LoadPolicy(policyRules) ==
    IF policyRules.src = "rules" THEN policyRules.mgr ELSE NilMgr

\* shell.DetectUserShell().DeriveExecArgs(cmd, login)
DeriveExecArgs(cmd, login) == <<"$SHELL", IF login THEN "-lc" ELSE "-c", cmd>>

\* the program a command vector runs, through the shell wrapper or directly
Program(cmdVec) == IF cmdVec[1] = "$SHELL" THEN cmdVec[3][1] ELSE cmdVec[1]

\* policyMgr.GetEvaluation(cmdVec, mode)
GetEvaluation(policyMgr, cmdVec, mode) == policyMgr[Program(cmdVec)]

\* the heuristic of an empty policy: read-only programs are safe
EvaluateCommand(cmdVec, mode) ==
    IF Program(cmdVec) = "ls" THEN ApprovalSkip ELSE ApprovalNeeded

\* isCollabToolCall
CollabTools == {"spawn_agent"}

isCollabToolCall(toolName) == toolName \in CollabTools

\* mutant: a forbidden decision asks for approval
decisionToApprovalReq_ForbiddenPrompts(d) ==
    IF d = DecisionAllow THEN ApprovalSkip ELSE ApprovalNeeded

\* decisionToApprovalReq
decisionToApprovalReq(d) ==
    CASE d = DecisionAllow -> ApprovalSkip
      [] d = DecisionPrompt -> ApprovalNeeded
      [] d = DecisionForbidden -> ApprovalForbidden
      [] OTHER -> ApprovalNeeded

\* evaluateCommandVecApproval: the requirement and the reason
evaluateCommandVecApproval(cmdVec, policyMgr, mode) ==
    IF policyMgr # NilMgr
    THEN LET eval == GetEvaluation(policyMgr, cmdVec, mode) IN
         <<decisionToApprovalReq(eval.Decision), eval.Justification>>
    ELSE IF mode = ApprovalNever \/ mode = "" THEN <<ApprovalSkip, "">>
    ELSE IF mode = ApprovalOnFailure THEN <<ApprovalSkip, "">>
    ELSE <<EvaluateCommand(cmdVec, mode), "">>

\* evaluateShellArrayApproval
evaluateShellArrayApproval(arguments, policyMgr, mode) ==
    IF arguments.json = "invalid" THEN <<ApprovalNeeded, "cannot parse arguments">>
    ELSE LET args == arguments.obj IN
         IF \/ "command" \notin DOMAIN args
            \/ args["command"].type # "array"
            \/ Len(args["command"].val) = 0
         THEN <<ApprovalNeeded, "missing command">>
         ELSE LET cmdArr == args["command"].val IN
              IF \E i \in 1..Len(cmdArr) : cmdArr[i].type # "string"
              THEN <<ApprovalNeeded, "command array contains non-string element">>
              ELSE evaluateCommandVecApproval(
                       [i \in 1..Len(cmdArr) |-> cmdArr[i].val], policyMgr, mode)

\* evaluateShellCommandApproval
evaluateShellCommandApproval(arguments, policyMgr, mode) ==
    IF arguments.json = "invalid" THEN <<ApprovalNeeded, "cannot parse arguments">>
    ELSE LET args == arguments.obj IN
         IF \/ "command" \notin DOMAIN args
            \/ args["command"].type # "string"
            \/ args["command"].val = <<>>
         THEN <<ApprovalNeeded, "missing command">>
         ELSE LET login == IF "login" \in DOMAIN args /\ args["login"].type = "bool"
                           THEN args["login"].val
                           ELSE TRUE
              IN evaluateCommandVecApproval(
                     DeriveExecArgs(args["command"].val, login), policyMgr, mode)

\* mutant: mutating file tools run without approval
evaluateToolApproval_TrustsWrites(toolName, arguments, policyMgr, mode) ==
    IF isCollabToolCall(toolName) THEN <<ApprovalSkip, "">>
    ELSE IF toolName \in {"read_file", "list_dir", "grep_files", "request_user_input",
                          "update_plan", "write_file", "apply_patch"}
    THEN <<ApprovalSkip, "">>
    ELSE IF toolName = "shell"
    THEN evaluateShellArrayApproval(arguments, policyMgr, mode)
    ELSE IF toolName = "shell_command"
    THEN evaluateShellCommandApproval(arguments, policyMgr, mode)
    ELSE IF mode = ApprovalNever THEN <<ApprovalSkip, "">>
    ELSE <<ApprovalNeeded, "unknown tool">>

\* mutant: update_plan is not on the list of safe tools
evaluateToolApproval_PlanUnlisted(toolName, arguments, policyMgr, mode) ==
    IF isCollabToolCall(toolName) THEN <<ApprovalSkip, "">>
    ELSE IF toolName \in {"read_file", "list_dir", "grep_files", "request_user_input"}
    THEN <<ApprovalSkip, "">>
    ELSE IF toolName = "shell"
    THEN evaluateShellArrayApproval(arguments, policyMgr, mode)
    ELSE IF toolName = "shell_command"
    THEN evaluateShellCommandApproval(arguments, policyMgr, mode)
    ELSE IF toolName \in {"write_file", "apply_patch"}
    THEN IF mode = ApprovalNever THEN <<ApprovalSkip, "">>
         ELSE <<ApprovalNeeded, "mutating file operation">>
    ELSE IF mode = ApprovalNever THEN <<ApprovalSkip, "">>
    ELSE <<ApprovalNeeded, "unknown tool">>

\* mutant: a tool the gate does not know runs without approval
evaluateToolApproval_TrustsUnknown(toolName, arguments, policyMgr, mode) ==
    IF isCollabToolCall(toolName) THEN <<ApprovalSkip, "">>
    ELSE IF toolName = "shell"
    THEN evaluateShellArrayApproval(arguments, policyMgr, mode)
    ELSE IF toolName = "shell_command"
    THEN evaluateShellCommandApproval(arguments, policyMgr, mode)
    ELSE IF toolName \in {"write_file", "apply_patch"}
    THEN IF mode = ApprovalNever THEN <<ApprovalSkip, "">>
         ELSE <<ApprovalNeeded, "mutating file operation">>
    ELSE <<ApprovalSkip, "">>

\* evaluateToolApproval: the requirement and the reason
evaluateToolApproval(toolName, arguments, policyMgr, mode) ==
    IF isCollabToolCall(toolName) THEN <<ApprovalSkip, "">>
    ELSE IF toolName \in {"read_file", "list_dir", "grep_files", "request_user_input",
                          "update_plan"}
    THEN <<ApprovalSkip, "">>
    ELSE IF toolName = "shell"
    THEN evaluateShellArrayApproval(arguments, policyMgr, mode)
    ELSE IF toolName = "shell_command"
    THEN evaluateShellCommandApproval(arguments, policyMgr, mode)
    ELSE IF toolName \in {"write_file", "apply_patch"}
    THEN IF mode = ApprovalNever THEN <<ApprovalSkip, "">>
         ELSE <<ApprovalNeeded, "mutating file operation">>
    ELSE IF mode = ApprovalNever THEN <<ApprovalSkip, "">>
    ELSE <<ApprovalNeeded, "unknown tool">>

\* classifyToolsForApproval, lines 74-79
NewPendingApproval(fc, reason) ==
    [CallID |-> fc.CallID, ToolName |-> fc.Name, Arguments |-> fc.Arguments,
     Reason |-> reason]

\* mutant: the forbidden output carries a call id of no call
ForbiddenOutput_OtherCallID(fc, reason) ==
    [Type |-> "function_call_output", CallID |-> <<"call", 0>>,
     Output |-> [Content |-> <<"This command is forbidden by exec policy.">>,
                 Success |-> FALSE]]

\* classifyToolsForApproval, lines 81-93: the message is its parts in order
ForbiddenOutput(fc, reason) ==
    [Type |-> "function_call_output", CallID |-> fc.CallID,
     Output |-> [Content |-> IF reason # ""
                             THEN <<"Forbidden: ", reason>>
                             ELSE <<"This command is forbidden by exec policy.">>,
                 Success |-> FALSE]]

RECURSIVE classifyLoop(_, _, _, _, _)
\* classifyToolsForApproval, lines 68-96: the loop from call i on
classifyLoop(functionCalls, i, policyMgr, mode, acc) ==
    IF i > Len(functionCalls) THEN acc
    ELSE LET fc == functionCalls[i]
             ev == evaluateToolApproval(fc.Name, fc.Arguments, policyMgr, mode)
             req == ev[1]
             reason == ev[2]
         IN classifyLoop(functionCalls, i + 1, policyMgr, mode,
                CASE req = ApprovalSkip -> acc
                  [] req = ApprovalNeeded ->
                       [acc EXCEPT !.pending = Append(@, NewPendingApproval(fc, reason))]
                  [] req = ApprovalForbidden ->
                       [acc EXCEPT !.forbidden = Append(@, ForbiddenOutput(fc, reason))]
                  [] OTHER -> acc)

\* mutant: mode never goes through the policy like the other modes
classifyToolsForApproval_NoShortCircuit(functionCalls, mode, policyRules) ==
    classifyLoop(functionCalls, 1, LoadPolicy(policyRules), mode,
                 [pending |-> <<>>, forbidden |-> <<>>])

\* classifyToolsForApproval
classifyToolsForApproval(functionCalls, mode, policyRules) ==
    IF mode = "" \/ mode = ApprovalNever
    THEN [pending |-> <<>>, forbidden |-> <<>>]
    ELSE classifyLoop(functionCalls, 1, LoadPolicy(policyRules), mode,
                      [pending |-> <<>>, forbidden |-> <<>>])

\* Bounds of the approval model

\* function calls in a batch that is classified
MaxBatch == 2

\* the tools of the model: the safe ones, the shell variants, the mutating
\* file tools, a tool the gate does not know, a collab tool
ToolNames ==
    {"read_file", "list_dir", "grep_files", "request_user_input", "update_plan",
     "shell", "shell_command", "write_file", "apply_patch", "mystery_tool",
     "spawn_agent"}

\* Arguments of a shell call: not JSON, no command, an empty command, a
\* command with a number in it, ls, rm -rf /
ShellArgs ==
    {InvalidJSON,
     ObjectJSON(NoArgs),
     ObjectJSON([command |-> ArrayVal(<<>>)]),
     ObjectJSON([command |-> ArrayVal(<<StringVal("ls"), Float64(10)>>)]),
     ObjectJSON([command |-> ArrayVal(<<StringVal("ls")>>)]),
     ObjectJSON([command |-> ArrayVal(<<StringVal("rm"), StringVal("-rf"), StringVal("/")>>)])}

\* Arguments of a shell_command call: not JSON, no command, an empty
\* command, ls, rm -rf /, rm -rf / without a login shell
ShellCommandArgs ==
    {InvalidJSON,
     ObjectJSON(NoArgs),
     ObjectJSON([command |-> StringVal(<<>>)]),
     ObjectJSON([command |-> StringVal(Ls)]),
     ObjectJSON([command |-> StringVal(RmRf)]),
     ObjectJSON([command |-> StringVal(RmRf), login |-> BoolVal(FALSE)])}

\* Arguments of any other call: not JSON, a path
OtherArgs == {InvalidJSON, ObjectJSON([path |-> StringVal(<<"/etc/passwd">>)])}

ArgsFor(name) ==
    IF name = "shell" THEN ShellArgs
    ELSE IF name = "shell_command" THEN ShellCommandArgs
    ELSE OtherArgs

\* a function call without its call id
CallSample ==
    UNION {{[Name |-> n, Arguments |-> a] : a \in ArgsFor(n)} : n \in ToolNames}

\* the call id of the i-th call of a batch
CallIDAt(i) == <<"call", i>>

\* models.ConversationItem of type function_call
FunctionCall(callID, name, arguments) ==
    [Type |-> "function_call", CallID |-> callID, Name |-> name,
     Arguments |-> arguments]

\* the batches of at most MaxBatch calls, each call with its own call id
Batches ==
    UNION {{[i \in 1..n |-> FunctionCall(CallIDAt(i), b[i].Name, b[i].Arguments)] :
               b \in [1..n -> CallSample]} : n \in 0..MaxBatch}

\* a nil *ApprovalResponse
NilResp == <<>>

\* the output recorded for a call the user denied
DeniedOutput(fc) ==
    [Type |-> "function_call_output", CallID |-> fc.CallID,
     Output |-> [Content |-> <<"User denied execution of this tool call.">>,
                 Success |-> FALSE]]

\* the ids of a list of the response
IDSet(ids) == {ids[k] : k \in 1..Len(ids)}

\* applyApprovalDecision: the loop over the function calls, from the i-th on
RECURSIVE applyLoop(_, _, _, _)
applyLoop(functionCalls, i, deniedSet, acc) ==
    IF i > Len(functionCalls) THEN acc
    ELSE LET fc == functionCalls[i] IN
         applyLoop(functionCalls, i + 1, deniedSet,
                   IF fc.CallID \in deniedSet
                   THEN [acc EXCEPT !.denied = Append(@, DeniedOutput(fc))]
                   ELSE [acc EXCEPT !.approved = Append(@, fc)])

\* mutant: a call proceeds when its id is in the approved list
applyApprovalDecision_ReadsApproved(functionCalls, resp) ==
    IF resp = NilResp
    THEN [approved |-> functionCalls, denied |-> <<>>]
    ELSE applyLoop(functionCalls, 1, IDSet(resp.Denied) \ IDSet(resp.Approved),
                   [approved |-> <<>>, denied |-> <<>>])

\* mutant: only the first id of the denied list counts
applyApprovalDecision_FirstDenied(functionCalls, resp) ==
    IF resp = NilResp
    THEN [approved |-> functionCalls, denied |-> <<>>]
    ELSE applyLoop(functionCalls, 1,
                   IF resp.Denied = <<>> THEN {} ELSE {resp.Denied[1]},
                   [approved |-> <<>>, denied |-> <<>>])

\* mutant: the denied outputs come out last call first
applyApprovalDecision_DeniedReversed(functionCalls, resp) ==
    IF resp = NilResp
    THEN [approved |-> functionCalls, denied |-> <<>>]
    ELSE LET r == applyLoop(functionCalls, 1, IDSet(resp.Denied),
                            [approved |-> <<>>, denied |-> <<>>])
         IN [r EXCEPT !.denied = [k \in 1..Len(@) |-> @[Len(@) + 1 - k]]]

\* applyApprovalDecision
applyApprovalDecision(functionCalls, resp) ==
    IF resp = NilResp
    THEN [approved |-> functionCalls, denied |-> <<>>]
    ELSE applyLoop(functionCalls, 1, IDSet(resp.Denied),
                   [approved |-> <<>>, denied |-> <<>>])

\* Bounds of the decision model

\* function calls in a batch a decision is applied to
MaxDecided == 2

\* ids in each list of a response
MaxListed == 2

\* the call ids of the decision model
DecisionIDs == {CallIDAt(1), CallIDAt(2)}

\* the calls a decision is applied to: a shell call and a write_file call
DecisionCalls ==
    {FunctionCall(id, n, InvalidJSON) : id \in DecisionIDs, n \in {"shell", "write_file"}}

\* the batches a decision is applied to; two calls may carry the same id
DecisionBatches == UNION {[1..n -> DecisionCalls] : n \in 0..MaxDecided}

\* lists of at most MaxListed ids, repetitions included
IDLists == UNION {[1..n -> DecisionIDs] : n \in 0..MaxListed}

\* the responses: nil, or any approved list with any denied list
Responses ==
    {NilResp} \cup {[Approved |-> a, Denied |-> d] : a \in IDLists, d \in IDLists}

----------------------------------------------------------------------------
(* Escalation: escalation.go *)

\* A Go string is the sequence of its characters.

\* the upper-case letters and, at the same positions, the lower-case ones
UpperLetters ==
    <<"A", "B", "C", "D", "E", "F", "G", "H", "I", "J", "K", "L", "M", "N",
      "O", "P", "Q", "R", "S", "T", "U", "V", "W", "X", "Y", "Z">>

LowerLetters ==
    <<"a", "b", "c", "d", "e", "f", "g", "h", "i", "j", "k", "l", "m", "n",
      "o", "p", "q", "r", "s", "t", "u", "v", "w", "x", "y", "z">>

\* unicode.ToLower on one character
ToLowerChar(c) ==
    IF \E k \in 1..Len(UpperLetters) : UpperLetters[k] = c
    THEN LowerLetters[CHOOSE k \in 1..Len(UpperLetters) : UpperLetters[k] = c]
    ELSE c

\* strings.ToLower
ToLower(str) == [k \in 1..Len(str) |-> ToLowerChar(str[k])]

\* strings.Contains
Contains(str, substr) ==
    \E k \in 0..(Len(str) - Len(substr)) : SubSeq(str, k + 1, k + Len(substr)) = substr

\* sandboxDenialKeywords
sandboxDenialKeywords ==
    <<
    \* "operation not permitted"
    <<"o", "p", "e", "r", "a", "t", "i", "o", "n", " ", "n", "o", "t", " ",
      "p", "e", "r", "m", "i", "t", "t", "e", "d">>,
    \* "permission denied"
    <<"p", "e", "r", "m", "i", "s", "s", "i", "o", "n", " ", "d", "e", "n",
      "i", "e", "d">>,
    \* "read-only file system"
    <<"r", "e", "a", "d", "-", "o", "n", "l", "y", " ", "f", "i", "l", "e",
      " ", "s", "y", "s", "t", "e", "m">>,
    \* "seccomp"
    <<"s", "e", "c", "c", "o", "m", "p">>,
    \* "sandbox"
    <<"s", "a", "n", "d", "b", "o", "x">>,
    \* "landlock"
    <<"l", "a", "n", "d", "l", "o", "c", "k">>,
    \* "failed to write file"
    <<"f", "a", "i", "l", "e", "d", " ", "t", "o", " ", "w", "r", "i", "t",
      "e", " ", "f", "i", "l", "e">>
    >>

\* mutant: the output is searched as it is, in its own case
isLikelySandboxDenial_CaseSensitive(output) ==
    \E k \in 1..Len(sandboxDenialKeywords) : Contains(output, sandboxDenialKeywords[k])

\* isLikelySandboxDenial
isLikelySandboxDenial(output) ==
    LET lower == ToLower(output)
    IN \E k \in 1..Len(sandboxDenialKeywords) : Contains(lower, sandboxDenialKeywords[k])

\* Outputs of tools

\* "no such file"
OutNoSuchFile ==
    <<"n", "o", " ", "s", "u", "c", "h", " ", "f", "i", "l", "e">>

\* "Permission denied"
OutPermissionDenied ==
    <<"P", "e", "r", "m", "i", "s", "s", "i", "o", "n", " ", "d", "e", "n",
      "i", "e", "d">>

\* "SECCOMP"
OutSeccompUpper ==
    <<"S", "E", "C", "C", "O", "M", "P">>

\* "sandboxed"
OutSandboxed ==
    <<"s", "a", "n", "d", "b", "o", "x", "e", "d">>

\* "rm: Operation not permitted"
OutOperationNotPermitted ==
    <<"r", "m", ":", " ", "O", "p", "e", "r", "a", "t", "i", "o", "n", " ",
      "n", "o", "t", " ", "p", "e", "r", "m", "i", "t", "t", "e", "d">>

\* "Read-only file system"
OutReadOnly ==
    <<"R", "e", "a", "d", "-", "o", "n", "l", "y", " ", "f", "i", "l", "e",
      " ", "s", "y", "s", "t", "e", "m">>

\* "xlandLOCKx"
OutLandlockInside ==
    <<"x", "l", "a", "n", "d", "L", "O", "C", "K", "x">>

\* "failed to write file"
OutFailedToWrite ==
    <<"f", "a", "i", "l", "e", "d", " ", "t", "o", " ", "w", "r", "i", "t",
      "e", " ", "f", "i", "l", "e">>

\* "permission  denied"
OutTwoSpaces ==
    <<"p", "e", "r", "m", "i", "s", "s", "i", "o", "n", " ", " ", "d", "e",
      "n", "i", "e", "d">>

\* "sandbo"
OutSandbo ==
    <<"s", "a", "n", "d", "b", "o">>

\* the outputs of the model: the empty output and the ones above
OutputSample ==
    {<<>>, OutNoSuchFile,
     OutPermissionDenied,
     OutSeccompUpper,
     OutSandboxed,
     OutOperationNotPermitted,
     OutReadOnly,
     OutLandlockInside,
     OutFailedToWrite,
     OutTwoSpaces,
     OutSandbo}

\* *bool: nil, or a pointer to a value
NilBool == <<>>

BoolPtr(b) == <<b>>

\* SessionState.Phase
PhaseToolExecuting == "tool_executing"

PhaseEscalationPending == "escalation_pending"

\* Bounds of the escalation model

\* tool results in a batch
MaxResults == 2

\* the function calls of a batch of n calls
EscalationCalls(n) ==
    [i \in 1..n |-> FunctionCall(CallIDAt(i), IF i = 1 THEN "shell" ELSE "write_file",
                                 ObjectJSON(NoArgs))]

\* activities.ToolActivityOutput
ToolActivityOutput(callID, content, success) ==
    [CallID |-> callID, Content |-> content, Success |-> success]

\* the results of a batch of n calls
ToolResults(n) ==
    {[i \in 1..n |-> ToolActivityOutput(CallIDAt(i), r[i].Content, r[i].Success)] :
        r \in [1..n -> [Content : OutputSample,
                        Success : {NilBool, BoolPtr(TRUE), BoolPtr(FALSE)}]]}

\* EscalationRequest
NewEscalationRequest(fc, result) ==
    [CallID |-> result.CallID, ToolName |-> fc.Name, Arguments |-> fc.Arguments,
     Output |-> result.Content, Reason |-> "command failed in sandbox"]

\* handleOnFailureEscalation: the loop that finds the failed tools, from the
\* i-th result on
RECURSIVE findFailed(_, _, _, _)
findFailed(functionCalls, toolResults, i, acc) ==
    IF i > Len(toolResults) THEN acc
    ELSE LET result == toolResults[i] IN
         findFailed(functionCalls, toolResults, i + 1,
                    IF /\ result.Success # NilBool
                       /\ ~result.Success[1]
                       /\ isLikelySandboxDenial(result.Content)
                    THEN [failedIndices |-> acc.failedIndices \cup {i},
                          escalations |-> Append(acc.escalations,
                                                 NewEscalationRequest(functionCalls[i], result))]
                    ELSE acc)

\* the escalation responses: nil, or a list of approved ids with a list of
\* denied ids
EscalationResponses ==
    {NilResp} \cup {[Approved |-> a, Denied |-> d] : a \in IDLists, d \in IDLists}

\* executeToolsInParallel was not called
NoReResult == [err |-> TRUE, results |-> <<>>]

\* what executeToolsInParallel gives for one call: an error, no result, or
\* one result
ReResults(fc) ==
    {NoReResult, [err |-> FALSE, results |-> <<>>]}
    \cup {[err |-> FALSE, results |-> <<ToolActivityOutput(fc.CallID, c, BoolPtr(b))>>] :
             c \in {<<>>, OutPermissionDenied}, b \in BOOLEAN}

\* the tool of the i-th result is run again
ReExecuted(toolResults, failedIndices, approvedSet, i) ==
    i \in failedIndices /\ toolResults[i].CallID \in approvedSet

\* handleOnFailureEscalation: the loop that runs the approved tools again,
\* from the i-th result on; re[i] is what executeToolsInParallel gives for
\* the i-th call, acc.attempts the calls of executeToolsInParallel so far
RECURSIVE reExecuteLoop(_, _, _, _, _, _)
reExecuteLoop(toolResults, failedIndices, approvedSet, re, i, acc) ==
    IF i > Len(toolResults) THEN acc
    ELSE reExecuteLoop(toolResults, failedIndices, approvedSet, re, i + 1,
            IF ~ReExecuted(toolResults, failedIndices, approvedSet, i)
            THEN acc
            ELSE [attempts |-> Append(acc.attempts, i),
                  results |-> IF ~re[i].err /\ Len(re[i].results) > 0
                              THEN [acc.results EXCEPT ![i] = re[i].results[1]]
                              ELSE acc.results])

\* mutant: every failed tool is run again, approved or not
reExecute_IgnoresApproval(toolResults, failedIndices, approvedSet, re) ==
    reExecuteLoop(toolResults, failedIndices,
                  {toolResults[i].CallID : i \in 1..Len(toolResults)}, re, 1,
                  [attempts |-> <<>>, results |-> toolResults])

\* mutant: the new results are appended to the results
reExecute_Appends(toolResults, failedIndices, approvedSet, re) ==
    LET r == reExecuteLoop(toolResults, failedIndices, approvedSet, re, 1,
                           [attempts |-> <<>>, results |-> toolResults])
    IN [attempts |-> r.attempts,
        results |-> toolResults \o
                    [k \in 1..Len(r.attempts) |-> r.results[r.attempts[k]]]]

\* handleOnFailureEscalation: the results after the approved tools ran again
reExecute(toolResults, failedIndices, approvedSet, re) ==
    reExecuteLoop(toolResults, failedIndices, approvedSet, re, 1,
                  [attempts |-> <<>>, results |-> toolResults])

\* mutant: only a response ends the wait
AwaitCondition_ResponseOnly(received, interrupted, shutdownRequested) == received

\* the condition of workflow.Await in the two gates: the response arrived,
\* or an interrupt or a shutdown was requested
AwaitCondition(received, interrupted, shutdownRequested) ==
    received \/ interrupted \/ shutdownRequested

----------------------------------------------------------------------------
(* request_user_input: user_input.go *)

PhaseUserInputPending == "user_input_pending"

\* a nil *PendingUserInputRequest
NilReq == <<>>

\* no item: the zero models.ConversationItem
NoItem == <<>>

\* one question of the arguments, decoded
QuestionArg(id, question, labels) ==
    [id |-> id, question |-> question,
     options |-> [k \in 1..Len(labels) |-> [label |-> labels[k]]]]

GoodQuestion == QuestionArg("q1", "Which one?", <<"a", "b">>)

OtherQuestion == QuestionArg("q2", "Sure?", <<"yes">>)

\* parseRequestUserInputArgs: the first error of the questions from the
\* i-th on, or the questions
RECURSIVE parseQuestions(_, _)
parseQuestions(qs, i) ==
    IF i > Len(qs) THEN [err |-> <<>>, questions |-> qs]
    ELSE IF qs[i].id = ""
    THEN [err |-> <<"question ", i, ": id is required">>, questions |-> <<>>]
    ELSE IF qs[i].question = ""
    THEN [err |-> <<"question ", i, ": question text is required">>, questions |-> <<>>]
    ELSE IF Len(qs[i].options) = 0
    THEN [err |-> <<"question ", i, ": options must not be empty">>, questions |-> <<>>]
    ELSE IF \E j \in 1..Len(qs[i].options) : qs[i].options[j].label = ""
    THEN [err |-> <<"question ", i, ", option ",
                    CHOOSE j \in 1..Len(qs[i].options) :
                       /\ qs[i].options[j].label = ""
                       /\ \A k \in 1..(j - 1) : qs[i].options[k].label # "",
                    ": label is required">>,
          questions |-> <<>>]
    ELSE parseQuestions(qs, i + 1)

\* parseRequestUserInputArgs
parseRequestUserInputArgs(argsJSON) ==
    IF argsJSON.json = "invalid"
    THEN [err |-> <<"invalid JSON">>, questions |-> <<>>]
    ELSE LET qs == IF "questions" \in DOMAIN argsJSON.obj
                   THEN argsJSON.obj["questions"].val ELSE <<>>
         IN IF Len(qs) = 0
            THEN [err |-> <<"questions array must not be empty">>, questions |-> <<>>]
            ELSE IF Len(qs) > 4
            THEN [err |-> <<"at most 4 questions allowed, got ", Len(qs)>>, questions |-> <<>>]
            ELSE parseQuestions(qs, 1)

\* the output of a request_user_input call
UserInputOutput(fc, content, success) ==
    [Type |-> "function_call_output", CallID |-> fc.CallID,
     Output |-> [Content |-> content, Success |-> success]]

\* mutant: an interrupted request is answered like a denied call
InterruptedOutput_Denied(fc) ==
    UserInputOutput(fc, <<"User denied execution of this tool call.">>, FALSE)

\* the output of a request_user_input call whose wait was interrupted
InterruptedOutput(fc) ==
    UserInputOutput(fc, <<"User input request was interrupted.">>, FALSE)

\* the arguments of the request_user_input calls of the model
UserInputArgs ==
    {InvalidJSON, ObjectJSON(NoArgs)}
    \cup {ObjectJSON([questions |-> ArrayVal(qs)]) :
             qs \in {<<>>,
                     <<GoodQuestion>>,
                     <<OtherQuestion>>,
                     <<GoodQuestion, OtherQuestion>>,
                     <<GoodQuestion, OtherQuestion, GoodQuestion, OtherQuestion>>,
                     <<GoodQuestion, OtherQuestion, GoodQuestion, OtherQuestion, GoodQuestion>>,
                     <<GoodQuestion, QuestionArg("", "Which one?", <<"a">>)>>,
                     <<QuestionArg("q1", "", <<"a">>)>>,
                     <<QuestionArg("q1", "Which one?", <<>>)>>,
                     <<QuestionArg("q1", "Which one?", <<"a", "">>)>>}}

\* the responses of the user: nil, or answers
UserInputResponses == {NilResp, [Answers |-> <<"a">>], [Answers |-> <<"yes">>]}

----------------------------------------------------------------------------
(* update_plan: plan.go *)

PlanStepPending == "pending"

PlanStepInProgress == "in_progress"

PlanStepCompleted == "completed"

\* a nil *PlanState
NilPlan == <<>>

\* one entry of the plan array of the arguments, decoded
PlanArg(step, status) == [step |-> step, status |-> status]

\* parseUpdatePlanArgs: the loop over the plan array from the i-th entry on
RECURSIVE parseSteps(_, _, _, _)
parseSteps(plan, i, inProgressCount, steps) ==
    IF i > Len(plan)
    THEN [err |-> <<>>, inProgressCount |-> inProgressCount, steps |-> steps]
    ELSE IF plan[i].step = ""
    THEN [err |-> <<"step ", i, ": step description must not be empty">>,
          inProgressCount |-> inProgressCount, steps |-> steps]
    ELSE IF plan[i].status \notin {PlanStepPending, PlanStepInProgress, PlanStepCompleted}
    THEN [err |-> <<"step ", i, ": invalid status ", plan[i].status,
                    " (must be pending, in_progress, or completed)">>,
          inProgressCount |-> inProgressCount, steps |-> steps]
    ELSE parseSteps(plan, i + 1,
                    IF plan[i].status = PlanStepInProgress
                    THEN inProgressCount + 1 ELSE inProgressCount,
                    Append(steps, [Step |-> plan[i].step, Status |-> plan[i].status]))

\* the decoded explanation and plan array of the arguments
PlanFields(argsJSON) ==
    [Explanation |-> IF "explanation" \in DOMAIN argsJSON.obj
                     THEN argsJSON.obj["explanation"].val ELSE "",
     Plan |-> IF "plan" \in DOMAIN argsJSON.obj THEN argsJSON.obj["plan"].val ELSE <<>>]

\* mutant: any number of steps may be in progress
parseUpdatePlanArgs_ManyInProgress(argsJSON) ==
    IF argsJSON.json = "invalid"
    THEN [err |-> <<"invalid JSON">>, plan |-> NilPlan]
    ELSE LET args == PlanFields(argsJSON) IN
         IF Len(args.Plan) = 0
         THEN [err |-> <<"plan array must not be empty">>, plan |-> NilPlan]
         ELSE LET r == parseSteps(args.Plan, 1, 0, <<>>) IN
              IF r.err # <<>> THEN [err |-> r.err, plan |-> NilPlan]
              ELSE [err |-> <<>>,
                    plan |-> [Explanation |-> args.Explanation, Steps |-> r.steps]]

\* parseUpdatePlanArgs
parseUpdatePlanArgs(argsJSON) ==
    IF argsJSON.json = "invalid"
    THEN [err |-> <<"invalid JSON">>, plan |-> NilPlan]
    ELSE LET args == PlanFields(argsJSON) IN
         IF Len(args.Plan) = 0
         THEN [err |-> <<"plan array must not be empty">>, plan |-> NilPlan]
         ELSE LET r == parseSteps(args.Plan, 1, 0, <<>>) IN
              IF r.err # <<>> THEN [err |-> r.err, plan |-> NilPlan]
              ELSE IF r.inProgressCount > 1
              THEN [err |-> <<"at most one step can be in_progress, got ",
                              r.inProgressCount>>,
                    plan |-> NilPlan]
              ELSE [err |-> <<>>,
                    plan |-> [Explanation |-> args.Explanation, Steps |-> r.steps]]

\* mutant: a call with invalid arguments clears the plan
handleUpdatePlan_ClearsPlan(plan, fc) ==
    LET parsed == parseUpdatePlanArgs(fc.Arguments) IN
    [Plan |-> parsed.plan,
     out |-> [Type |-> "function_call_output", CallID |-> fc.CallID,
              Output |-> [Content |-> <<"Plan updated.">>, Success |-> parsed.err = <<>>]]]

\* handleUpdatePlan: the plan of the session after the call, and the output
handleUpdatePlan(plan, fc) ==
    LET parsed == parseUpdatePlanArgs(fc.Arguments) IN
    IF parsed.err # <<>>
    THEN [Plan |-> plan,
          out |-> [Type |-> "function_call_output", CallID |-> fc.CallID,
                   Output |-> [Content |-> <<"Invalid update_plan arguments: ", parsed.err>>,
                               Success |-> FALSE]]]
    ELSE [Plan |-> parsed.plan,
          out |-> [Type |-> "function_call_output", CallID |-> fc.CallID,
                   Output |-> [Content |-> <<"Plan updated.">>, Success |-> TRUE]]]

\* Bounds of the plan model

\* entries in the plan array of one call
MaxSteps == 2

\* update_plan calls in a session
MaxPlanCalls == 3

\* the entries of the plan arrays of the model: with and without text, with
\* the three statuses and with a status that does not exist
PlanArgSample ==
    {PlanArg(t, st) : t \in {"", "read", "write"},
                      st \in {PlanStepPending, PlanStepInProgress, PlanStepCompleted, "running"}}

\* the arguments of the update_plan calls of the model
PlanArgs ==
    {InvalidJSON, ObjectJSON(NoArgs)}
    \cup UNION {{ObjectJSON([plan |-> ArrayVal(pl)]) : pl \in [1..n -> PlanArgSample]} :
                  n \in 0..MaxSteps}
    \cup {ObjectJSON([explanation |-> StringVal("why"),
                      plan |-> ArrayVal(<<PlanArg("read", PlanStepInProgress)>>)])}

----------------------------------------------------------------------------
(* The CLI's view of the conversation log: cli/app.go, cli/poller.go *)

\* NewApp: lastRenderedSeq before anything was rendered
InitialLastRenderedSeq == -1

\* a conversation item: its seq, and which append of the session made it
ConversationItem(seq, n) == [Seq |-> seq, Item |-> n]

\* the seq the log gives its next entry: above every seq it holds
NextSeqs(log, firstSeqs, gaps) ==
    IF log = <<>> THEN firstSeqs ELSE {log[Len(log)].Seq + g : g \in gaps}

\* App.renderNewItems: the loop over the items of a poll, from the i-th on;
\* st holds lastRenderedSeq and what the renderer was given so far
RECURSIVE renderLoop(_, _, _)
renderLoop(items, i, st) ==
    IF i > Len(items) THEN st
    ELSE IF items[i].Seq <= st.lastRenderedSeq
         THEN renderLoop(items, i + 1, st)
         ELSE renderLoop(items, i + 1,
                         [lastRenderedSeq |-> items[i].Seq,
                          rendered |-> Append(st.rendered, items[i])])

\* mutant: lastRenderedSeq stays where it was
renderNewItems_KeepsSeq(items, lastRenderedSeq, rendered) ==
    [renderLoop(items, 1, [lastRenderedSeq |-> lastRenderedSeq, rendered |-> rendered])
       EXCEPT !.lastRenderedSeq = lastRenderedSeq]

\* App.renderNewItems
renderNewItems(items, lastRenderedSeq, rendered) ==
    renderLoop(items, 1, [lastRenderedSeq |-> lastRenderedSeq, rendered |-> rendered])

\* Poller.Poll: the result of a poll that failed, and of one that saw items
PollError == [Err |-> TRUE, Items |-> <<>>]

PollResult(items) == [Err |-> FALSE, Items |-> items]

\* the item type that ends a turn, and the phases the CLI tells apart
ItemTypeTurnComplete == "turn_complete"

PhaseWaitingForInput == "waiting_for_input"

PhaseLLMCalling == "llm_calling"

\* an entry of the log as the CLI's main loop reads it: its seq and its type
LogItem(seq, type) == [Seq |-> seq, Type |-> type]

\* App.isTurnComplete: some item from the last rendered one on ends a turn
isTurnComplete(items, lastRenderedSeq) ==
    \E i \in 1..Len(items) :
       /\ ~(items[i].Seq <= lastRenderedSeq - 1)
       /\ items[i].Type = ItemTypeTurnComplete

\* Poller.Poll: the result of a poll that saw items and a status
PollOf(items, phase) == [Err |-> FALSE, Items |-> items, Phase |-> phase]

\* a poller goroutine: its context, where it stands, the result it holds
PollerOf(cancelled, pc, result) == [cancelled |-> cancelled, pc |-> pc, result |-> result]

\* startPolling: the poller goroutines afterwards
startPolling(pollers, pollCancel) ==
    Append(IF pollCancel # 0 THEN [pollers EXCEPT ![pollCancel].cancelled = TRUE]
           ELSE pollers,
           PollerOf(FALSE, "ticker", PollError))

\* stopPolling: the poller goroutines afterwards
stopPolling(pollers, pollCancel) ==
    IF pollCancel # 0 THEN [pollers EXCEPT ![pollCancel].cancelled = TRUE]
    ELSE pollers

\* Bounds of the input model

\* capacity of pollCh and of inputCh (NewApp)
ChannelCap == 1

\* lines the user types
MaxLines == 2

\* entries the orchestrator appends in a turn before it completes the turn
MaxTurnItems == 1

\* the lines the user types: an empty one, a message
TypedLines == {"", "hello"}

\* Bounds of the log model

\* entries appended to the log
MaxItems == 3

\* poll results on their way to the main loop
MaxInFlight == 2

\* continuations of the workflow
MaxContinuations == 2

\* the seq of the first entry, and the step from one seq to the next
FirstSeqs == {0, 1}

SeqGaps == {1, 2}

----------------------------------------------------------------------------
(* Context compaction: the auto-compact limit and the rebuilt history *)

\* mutant: the configured limit is used whatever the context window
effectiveAutoCompactLimit_NoClamp(AutoCompactTokenLimit, ContextWindow) ==
    AutoCompactTokenLimit

\* SessionState.effectiveAutoCompactLimit: the configured limit, clamped to
\* nine tenths of the context window when the window is known
effectiveAutoCompactLimit(AutoCompactTokenLimit, ContextWindow) ==
    IF AutoCompactTokenLimit = 0 THEN 0
    ELSE IF ContextWindow = 0 THEN AutoCompactTokenLimit
    ELSE LET clamp == (ContextWindow * 9) \div 10
         IN IF AutoCompactTokenLimit > clamp THEN clamp ELSE AutoCompactTokenLimit

\* Bounds of the limit model

\* the small configured limits, next to the limits of the tests
MaxLimit == 12

\* the small context windows, next to the window of the tests
MaxWindow == 12

Limits == 0..MaxLimit \cup {80000, 100000, 200000}

Windows == 0..MaxWindow \cup {128000}

\* the item types of models.ConversationItem the model uses
ItemTypeCompaction == "compaction"

ItemTypeAssistantMessage == "assistant_message"

ItemTypeUserMessage == "user_message"

\* an item of the history: its type and its content, a sequence of words
HistoryItem(type, content) == [Type |-> type, Content |-> content]

\* the words the summary message starts with
SummaryPrefix == <<"Another language model started", "to solve this problem">>

\* mutant: the summary message comes after the retained items
buildCompactedHistory_SummaryLast(summary, recentItems) ==
    <<HistoryItem(ItemTypeCompaction, <<"context_compacted">>)>>
       \o recentItems
       \o <<HistoryItem(ItemTypeAssistantMessage, SummaryPrefix \o summary)>>

\* buildCompactedHistory: the marker, the summary message, the retained
\* items
buildCompactedHistory(summary, recentItems) ==
    <<HistoryItem(ItemTypeCompaction, <<"context_compacted">>),
      HistoryItem(ItemTypeAssistantMessage, SummaryPrefix \o summary)>>
       \o recentItems

\* Bounds of the history model

\* words in a summary and in the content of an item
MaxWords == 2

\* retained items
MaxRetained == 2

Words == {"alpha", "Another language model started"}

Texts == UNION {[1..n -> Words] : n \in 0..MaxWords}

RetainedSample ==
    {HistoryItem(t, c) : t \in {ItemTypeUserMessage, ItemTypeAssistantMessage, ItemTypeCompaction},
                         c \in {<<>>, <<"alpha">>, <<"context_compacted">>}}

RetainedLists == UNION {[1..n -> RetainedSample] : n \in 0..MaxRetained}

----------------------------------------------------------------------------
(* Turn ids and the repeat-detection key: util.go *)

\* fmt.Sprintf("turn-%d", n): the prefix and the decimal digits of n
TurnIDOf(n) == <<"turn-">> \o Itoa(n)

\* mutant: the counter stays where it was
nextTurnID_NoIncrement(TurnCounter) ==
    [TurnCounter |-> TurnCounter, id |-> TurnIDOf(TurnCounter)]

\* SessionState.nextTurnID: the counter afterwards and the id returned
nextTurnID(TurnCounter) ==
    [TurnCounter |-> TurnCounter + 1, id |-> TurnIDOf(TurnCounter + 1)]

\* Bounds of the turn model

\* turns of a session
MaxTurns == 24

\* the value of a byte of the model's texts: ':' comes before the letters
ByteOf(ch) == IF ch = ":" THEN 58 ELSE 97

RECURSIVE LessString(_, _)
\* a < b for Go strings: byte by byte, a proper prefix comes first
LessString(a, b) ==
    IF b = <<>> THEN FALSE
    ELSE IF a = <<>> THEN TRUE
    ELSE IF ByteOf(Head(a)) # ByteOf(Head(b)) THEN ByteOf(Head(a)) < ByteOf(Head(b))
    ELSE LessString(Tail(a), Tail(b))

RECURSIVE InsertSorted(_, _)
\* p put into the sorted list before the first entry that is not below it
InsertSorted(sorted, p) ==
    IF sorted = <<>> THEN <<p>>
    ELSE IF LessString(Head(sorted), p)
         THEN <<Head(sorted)>> \o InsertSorted(Tail(sorted), p)
         ELSE <<p>> \o sorted

RECURSIVE sortStrings(_)
\* sort.Strings(parts): the strings in increasing order
sortStrings(parts) ==
    IF parts = <<>> THEN <<>>
    ELSE InsertSorted(sortStrings(Tail(parts)), Head(parts))

\* toolCallsKey, line 48: c.Name + ":" + c.Arguments
KeyPart(c) == c.Name \o <<":">> \o c.Arguments

RECURSIVE WriteAll(_)
\* toolCallsKey, lines 52-54: the bytes written to the hash, one part after
\* the other
WriteAll(parts) ==
    IF parts = <<>> THEN <<>> ELSE Head(parts) \o WriteAll(Tail(parts))

\* sha256 and fmt.Sprintf("%x"): a digest that two inputs share only when
\* they are the same bytes
Sha256Hex(bytes) == <<"sha256", bytes>>

\* mutant: the parts are hashed in the order of the calls
toolCallsKey_Unsorted(calls) ==
    Sha256Hex(WriteAll([i \in 1..Len(calls) |-> KeyPart(calls[i])]))

\* toolCallsKey
toolCallsKey(calls) ==
    Sha256Hex(WriteAll(sortStrings([i \in 1..Len(calls) |-> KeyPart(calls[i])])))

\* Bounds of the key model

\* calls of a batch
MaxKeyBatch == 2
\* bytes of the arguments of a call
MaxArgLen == 3

\* the arguments: every text of ':' and 'a' up to MaxArgLen bytes
KeyArgs == UNION {[1..n -> {":", "a"}] : n \in 0..MaxArgLen}

\* the calls: tool a with each of the arguments
KeyCalls == {[Name |-> <<"a">>, Arguments |-> args] : args \in KeyArgs}

\* the batches
KeyBatches == UNION {[1..n -> KeyCalls] : n \in 0..MaxKeyBatch}

----------------------------------------------------------------------------
(* ExecSession objects *)

\* the object StartSession returns
NewSession(processID, lastUsed) ==
    [ProcessID |-> processID, LastUsed |-> lastUsed, exited |-> FALSE,
     exitCode |-> NilCode, closed |-> FALSE, stdinWrites |-> 0]

\* the handle of a newly allocated object: the first one not in use
NewHandle == CHOOSE h \in 1..(Cardinality(DOMAIN heap) + 1) :
                /\ h \notin DOMAIN heap
                /\ \A g \in 1..(h - 1) : g \in DOMAIN heap

HasExited(h) == heap[h].exited

ExitCode(h) == heap[h].exitCode

\* sess.Close() on object h
CloseSession(hp, h) == [hp EXCEPT ![h].closed = TRUE]

----------------------------------------------------------------------------
(* Store *)

\* m[k] = v on a Go map
MapPut(m, k, v) == [x \in DOMAIN m \cup {k} |-> IF x = k THEN v ELSE m[x]]

\* delete(m, k) on a Go map
MapDelete(m, k) == [x \in DOMAIN m \ {k} |-> m[x]]

\* live with one more allocation of id
LiveAdd(id) == MapPut(live, id, IF id \in DOMAIN live THEN live[id] + 1 ELSE 1)

\* live once id was released or removed
LiveDrop(lv, id) == MapDelete(lv, id)

\* live once id was stored: the allocation it was stored under goes on, a
\* session stored without one holds its id from now on
LiveStore(id) == IF id \in DOMAIN live THEN live ELSE MapPut(live, id, 1)

\* NewStore
NewStore == [sessions |-> <<>>, reserved |-> {}]

\* mutant: the drawn id is returned without looking at the reserved set
AllocateIDResults_IgnoresReserved == {Itoa(MinProcessID + r) : r \in RandSample}

\* AllocateID: the loop draws until the id is not reserved; the id returned
AllocateIDResults == {Itoa(MinProcessID + r) : r \in RandSample} \ reserved

\* Get: the session and the error
Get(processID) ==
    IF processID \in DOMAIN sessions
    THEN [sess |-> sessions[processID], err |-> Nil]
    ELSE [sess |-> NilSession, err |-> "ErrUnknownProcessID"]

Count == Cardinality(DOMAIN sessions)

\* pruneOneLocked, lines 297-307: one candidate per stored session
Candidates(ss, hp) ==
    {[id |-> id, lastUsed |-> hp[ss[id]].LastUsed, exited |-> hp[ss[id]].exited] :
        id \in DOMAIN ss}

RECURSIVE TieOrders(_)
\* every order of the elements of a set
TieOrders(S) ==
    IF S = {} THEN {<<>>}
    ELSE UNION {{<<t>> \o rest : rest \in TieOrders(S \ {t})} : t \in S}

\* the timestamps of the model lie in OldestTime..NewestTime
OldestTime == InitialLastUsed(0)

NewestTime == InitialLastUsed(MaxSessions) + 1

RECURSIVE SortedRange(_, _, _)
\* the descending orders of candidates whose lastUsed lies in lo..hi: those of
\* the newer half followed by those of the older half; candidates with the
\* same lastUsed in any order
SortedRange(C, lo, hi) ==
    IF C = {} THEN {<<>>}
    ELSE IF lo = hi THEN TieOrders(C)
    ELSE LET mid == (lo + hi) \div 2
             newer == {c \in C : c.lastUsed > mid}
             older == {c \in C : c.lastUsed <= mid}
         IN {a \o b : a \in SortedRange(newer, mid + 1, hi),
                      b \in SortedRange(older, lo, mid)}

\* mutant: the comparison does not tell the two oldest timestamps apart
SortedOrders_OldestAlike(C) ==
    SortedRange({[c EXCEPT !.lastUsed = IF @ < InitialLastUsed(2)
                                        THEN InitialLastUsed(2) ELSE @] : c \in C},
                OldestTime, NewestTime)

\* pruneOneLocked, lines 309-312: sort.Slice by lastUsed descending over
\* candidates gathered in map iteration order. The sort is not stable and the
\* iteration order is random, so candidates with equal lastUsed come out in
\* any order: the set of all orders the sort can produce.
SortedOrders(C) == SortedRange(C, OldestTime, NewestTime)

\* mutant: no candidate is protected
Unprotected_None(candidates) == candidates

\* pruneOneLocked, lines 314-322
Unprotected(candidates) ==
    IF Len(candidates) > ProtectedCount
    THEN SubSeq(candidates, ProtectedCount + 1, Len(candidates))
    ELSE candidates

\* mutant: the least recently used candidate, exited or not
PickVictim_IgnoresExited(unprotected) ==
    IF Len(unprotected) > 0 THEN unprotected[Len(unprotected)].id ELSE NoID

\* pruneOneLocked, lines 324-336: the last exited one, else the last one
PickVictim(unprotected) ==
    LET exitedAt == {i \in 1..Len(unprotected) : unprotected[i].exited}
        victim == IF exitedAt = {} THEN NoID
                  ELSE unprotected[CHOOSE i \in exitedAt : \A j \in exitedAt : j <= i].id
    IN IF victim = NoID /\ Len(unprotected) > 0
       THEN unprotected[Len(unprotected)].id
       ELSE victim

\* mutant: Remove leaves the id reserved
RemoveResult_KeepsReservation(processID) ==
    [sessions |-> MapDelete(sessions, processID), reserved |-> reserved]

\* mutant: a session id of zero is rejected as not a number
parseSessionID_RejectsZero(args) ==
    IF "session_id" \notin DOMAIN args
    THEN [id |-> NoID, err |-> "missing required argument: session_id"]
    ELSE LET sessionID == Itoa(parseNumberArg(args, "session_id", 0)) IN
         IF sessionID = Itoa(0)
         THEN [id |-> NoID, err |-> "session_id must be a number"]
         ELSE [id |-> sessionID, err |-> Nil]

\* mutant: the victim's id stays reserved
pruneOneLocked_KeepsReservation(ss, rs, hp, candidates) ==
    LET victim == PickVictim(Unprotected(candidates)) IN
    IF victim # NoID
    THEN [sessions |-> MapDelete(ss, victim), reserved |-> rs,
          heap |-> IF victim \in DOMAIN ss THEN CloseSession(hp, ss[victim]) ELSE hp,
          victim |-> victim]
    ELSE [sessions |-> ss, reserved |-> rs, heap |-> hp, victim |-> NoID]

\* pruneOneLocked for one outcome of the sort: the store and the heap afterwards
pruneOneLocked(ss, rs, hp, candidates) ==
    LET victim == PickVictim(Unprotected(candidates)) IN
    IF victim # NoID
    THEN [sessions |-> MapDelete(ss, victim), reserved |-> rs \ {victim},
          heap |-> IF victim \in DOMAIN ss THEN CloseSession(hp, ss[victim]) ELSE hp,
          victim |-> victim]
    ELSE [sessions |-> ss, reserved |-> rs, heap |-> hp, victim |-> NoID]

\* mutant: the store is pruned one session too late
StoreResults_PrunesLate(h) ==
    LET pid == heap[h].ProcessID
        ss == MapPut(sessions, pid, h)
        rs == reserved \cup {pid}
    IN IF Cardinality(DOMAIN ss) > MaxSessions + 1
       THEN {pruneOneLocked(ss, rs, heap, order) : order \in SortedOrders(Candidates(ss, heap))}
       ELSE {[sessions |-> ss, reserved |-> rs, heap |-> heap, victim |-> NoID]}

\* Store.Store(session) for session object h: every outcome
StoreResults(h) ==
    LET pid == heap[h].ProcessID
        ss == MapPut(sessions, pid, h)
        rs == reserved \cup {pid}
    IN IF Cardinality(DOMAIN ss) > MaxSessions
       THEN {pruneOneLocked(ss, rs, heap, order) : order \in SortedOrders(Candidates(ss, heap))}
       ELSE {[sessions |-> ss, reserved |-> rs, heap |-> heap, victim |-> NoID]}

\* Store.Remove(processID)
RemoveResult(processID) ==
    [sessions |-> MapDelete(sessions, processID), reserved |-> reserved \ {processID}]

\* Store.ReleaseID(processID)
ReleaseIDResult(processID) == reserved \ {processID}

----------------------------------------------------------------------------
(* Tool responses *)

\* formatExecResponse: the header lines of the content, and success
formatExecResponse(exitCode, sessionID) ==
    [Content |-> <<<<"Wall time">>>>
                 \o (IF exitCode # NilCode THEN <<<<"Exit code", exitCode[1]>>>> ELSE <<>>)
                 \o (IF sessionID # NoID THEN <<<<"Session ID", sessionID>>>> ELSE <<>>)
                 \o <<<<"Output">>>>,
     Success |-> (exitCode = NilCode \/ exitCode[1] = 0)]

\* handleWriteStdin, lines 518-524: the output for a session id Get does not find
UnknownSessionOutput(sessionID) ==
    [Content |-> <<<<"Unknown session ID", sessionID>>>>, Success |-> FALSE]

\* handleWriteStdin, lines 530-536: the output when WriteStdin fails
FailedWriteOutput ==
    [Content |-> <<<<"Failed to write to stdin">>>>, Success |-> FALSE]

\* tools.NewValidationError: the handler returns an error and no output
ValidationError(msg) == [Error |-> msg]

\* handleWriteStdin, lines 493-505: the session id, or the validation error
parseSessionID(args) ==
    IF "session_id" \notin DOMAIN args
    THEN [id |-> NoID, err |-> "missing required argument: session_id"]
    ELSE LET sessionID == Itoa(parseNumberArg(args, "session_id", 0)) IN
         IF sessionID = Itoa(0)
         THEN IF args["session_id"].type = "float64"
              THEN [id |-> Itoa(IntOfFloat(args["session_id"])), err |-> Nil]
              ELSE [id |-> NoID, err |-> "session_id must be a number"]
         ELSE [id |-> sessionID, err |-> Nil]

NoResponse == [Content |-> <<>>, Success |-> TRUE]
----------------------------------------------------------------------------
(* The buffer's state machine *)

InitBuffer ==
    /\ \E m \in 0..MaxCap : buf = NewHeadTailBuffer(m)
    /\ pushed = <<>>
    /\ sinceDrain = <<>>
    /\ drains = 0
    /\ bufOp = [op |-> "new", chunk |-> <<>>, out |-> <<>>]

Push(chunk) ==
    /\ Len(pushed) + Len(chunk) <= MaxTotal
    /\ buf' = PushBuf(buf, chunk)
    /\ pushed' = pushed \o chunk
    /\ sinceDrain' = sinceDrain \o chunk
    /\ bufOp' = [op |-> "Push", chunk |-> chunk, out |-> <<>>]
    /\ UNCHANGED <<drains, storeVars, call>>

DrainChunks ==
    /\ drains < MaxDrains
    /\ buf' = DrainBuf(buf)
    /\ sinceDrain' = <<>>
    /\ drains' = drains + 1
    /\ bufOp' = [op |-> "DrainChunks", chunk |-> <<>>, out |-> DrainOut(buf)]
    /\ UNCHANGED <<pushed, storeVars, call>>

NextBuffer ==
    \/ \E chunk \in Chunks : Push(chunk)
    \/ DrainChunks

----------------------------------------------------------------------------
(* The store and its activities *)

\* the store in a state the program reaches by Prefill exec_command calls whose
\* processes keep running or exit after they were stored
InitStore ==
    /\ \E pattern \in ExitedPatterns :
         heap = [i \in 1..Prefill |->
                    [ProcessID |-> Itoa(MinProcessID + i - 1),
                     LastUsed |-> InitialLastUsed(i),
                     exited |-> i \in pattern,
                     exitCode |-> IF i \in pattern THEN <<0>> ELSE NilCode,
                     closed |-> FALSE,
                     stdinWrites |-> 0]]
    /\ sessions = [id \in {Itoa(MinProcessID + i - 1) : i \in 1..Prefill} |->
                      CHOOSE i \in 1..Prefill : Itoa(MinProcessID + i - 1) = id]
    /\ reserved = {Itoa(MinProcessID + i - 1) : i \in 1..Prefill}
    /\ live = [id \in {Itoa(MinProcessID + i - 1) : i \in 1..Prefill} |-> 1]
    /\ removed = {}
    /\ exec = [e \in ExecProcs |->
                 [pc |-> "idle", processID |-> NoID, sess |-> NilSession,
                  resp |-> NoResponse, calls |-> 0]]
    /\ stdin = [w \in StdinProcs |->
                  [pc |-> "idle", args |-> NoArgs, sessionID |-> NoID,
                   sess |-> NilSession, resp |-> NoResponse, calls |-> 0]]

\* store variables while another subsystem runs
InitStoreUnused ==
    /\ heap = <<>>
    /\ sessions = NewStore.sessions
    /\ reserved = NewStore.reserved
    /\ live = <<>>
    /\ removed = {}
    /\ exec = <<>>
    /\ stdin = <<>>

\* handleExecCommand, line 456: processID := h.store.AllocateID()
ExecAllocate(e) ==
    /\ exec[e].pc = "idle"
    /\ exec[e].calls < MaxExecCalls
    /\ \E id \in AllocateIDResults :
         /\ reserved' = reserved \cup {id}
         /\ exec' = [exec EXCEPT ![e] = [pc |-> "allocated", processID |-> id,
                                        sess |-> NilSession, resp |-> NoResponse,
                                        calls |-> @.calls + 1]]
         /\ live' = LiveAdd(id)
    /\ UNCHANGED <<sessions, heap, stdin, removed, bufVars, call>>

\* handleExecCommand, lines 460-466: StartSession succeeds
ExecStart(e) ==
    /\ exec[e].pc = "allocated"
    /\ \E lu \in NewLastUsed :
         heap' = MapPut(heap, NewHandle, NewSession(exec[e].processID, lu))
    /\ exec' = [exec EXCEPT ![e].pc = "started", ![e].sess = NewHandle]
    /\ UNCHANGED <<sessions, reserved, stdin, live, removed, bufVars, call>>

\* handleExecCommand, lines 467-470: StartSession fails
ExecStartFails(e) ==
    /\ exec[e].pc = "allocated"
    /\ reserved' = ReleaseIDResult(exec[e].processID)
    /\ exec' = [exec EXCEPT ![e].pc = "idle",
                            ![e].resp = ValidationError("failed to start command")]
    /\ live' = LiveDrop(live, exec[e].processID)
    /\ UNCHANGED <<sessions, heap, stdin, removed, bufVars, call>>

\* the process of a session exits
ProcExit(h) ==
    /\ h \in DOMAIN heap
    /\ h > Prefill \/ h \in ExitableInitial
    /\ ~heap[h].exited
    /\ \E code \in ExitCodes :
         heap' = [heap EXCEPT ![h].exited = TRUE, ![h].exitCode = <<code>>]
    /\ UNCHANGED <<sessions, reserved, exec, stdin, live, removed, bufVars, call>>

\* handleExecCommand, lines 473-481: output collected, the process has exited
ExecExited(e) ==
    /\ exec[e].pc = "started"
    /\ HasExited(exec[e].sess)
    /\ reserved' = ReleaseIDResult(exec[e].processID)
    /\ exec' = [exec EXCEPT ![e].pc = "idle",
                            ![e].sess = NilSession,
                            ![e].resp = formatExecResponse(ExitCode(exec[e].sess), NoID)]
    /\ heap' = MapDelete(heap, exec[e].sess)
    /\ live' = LiveDrop(live, exec[e].processID)
    /\ UNCHANGED <<sessions, stdin, removed, bufVars, call>>

\* handleExecCommand, lines 473-478: output collected, the process still runs
ExecRunning(e) ==
    /\ exec[e].pc = "started"
    /\ ~HasExited(exec[e].sess)
    /\ exec' = [exec EXCEPT ![e].pc = "store"]
    /\ UNCHANGED <<sessions, reserved, heap, stdin, live, removed, bufVars, call>>

\* handleExecCommand, lines 483-485: h.store.Store(sess) and the response
ExecStore(e) ==
    /\ exec[e].pc = "store"
    /\ \E r \in StoreResults(exec[e].sess) :
         /\ sessions' = r.sessions
         /\ reserved' = r.reserved
         /\ heap' = r.heap
         /\ live' = IF r.victim # NoID
                    THEN LiveDrop(LiveStore(exec[e].processID), r.victim)
                    ELSE LiveStore(exec[e].processID)
    /\ exec' = [exec EXCEPT ![e].pc = "idle",
                            ![e].resp = formatExecResponse(NilCode, exec[e].processID)]
    /\ removed' = removed \ {exec[e].processID}
    /\ UNCHANGED <<stdin, bufVars, call>>

\* handleWriteStdin, lines 493-539: the arguments, h.store.Get(sessionID) and
\* sess.WriteStdin(chars), which fails or writes to the process
StdinGet(w, args) ==
    /\ stdin[w].pc = "idle"
    /\ stdin[w].calls < MaxStdinCalls
    /\   LET parsed == parseSessionID(args)
             got == Get(parsed.id)
             chars == CharsOf(args)
             done(id, resp) ==
                 [pc |-> "idle", args |-> args, sessionID |-> id,
                  sess |-> NilSession, resp |-> resp, calls |-> stdin[w].calls + 1]
         IN \/ /\ parsed.err # Nil
               /\ stdin' = [stdin EXCEPT ![w] = done(NoID, ValidationError(parsed.err))]
               /\ heap' = heap
            \/ /\ parsed.err = Nil
               /\ got.err # Nil
               /\ stdin' = [stdin EXCEPT ![w] =
                               done(parsed.id, UnknownSessionOutput(parsed.id))]
               /\ heap' = heap
            \/ /\ parsed.err = Nil
               /\ got.err = Nil
               /\ chars # ""
               /\ stdin' = [stdin EXCEPT ![w] = done(parsed.id, FailedWriteOutput)]
               /\ heap' = heap
            \/ /\ parsed.err = Nil
               /\ got.err = Nil
               /\ stdin' = [stdin EXCEPT ![w] =
                               [pc |-> "collect", args |-> args,
                                sessionID |-> parsed.id,
                                sess |-> got.sess, resp |-> NoResponse,
                                calls |-> stdin[w].calls + 1]]
               /\ heap' = IF chars # ""
                          THEN [heap EXCEPT ![got.sess].stdinWrites = @ + 1]
                          ELSE heap
    /\ UNCHANGED <<sessions, reserved, exec, live, removed, bufVars, call>>

\* handleWriteStdin, lines 541-550: output collected, the process has exited
StdinExited(w) ==
    /\ stdin[w].pc = "collect"
    /\ HasExited(stdin[w].sess)
    /\ sessions' = RemoveResult(stdin[w].sessionID).sessions
    /\ reserved' = RemoveResult(stdin[w].sessionID).reserved
    /\ stdin' = [stdin EXCEPT ![w].pc = "idle",
                              ![w].resp = formatExecResponse(ExitCode(stdin[w].sess), NoID)]
    /\ live' = LiveDrop(live, stdin[w].sessionID)
    /\ removed' = removed \cup {stdin[w].sessionID}
    /\ UNCHANGED <<heap, exec, bufVars, call>>

\* handleWriteStdin, lines 541-552: output collected, the process still runs
StdinRunning(w) ==
    /\ stdin[w].pc = "collect"
    /\ ~HasExited(stdin[w].sess)
    /\ stdin' = [stdin EXCEPT ![w].pc = "idle",
                              ![w].resp = formatExecResponse(NilCode, stdin[w].sessionID)]
    /\ UNCHANGED <<sessions, reserved, heap, exec, live, removed, bufVars, call>>

NextStore ==
    \/ \E e \in ExecProcs : exec[e].calls < MaxCalls /\ ExecAllocate(e)
    \/ \E e \in ExecProcs : ExecStart(e)
    \/ \E e \in ExecProcs : ExecStartFails(e)
    \/ \E e \in ExecProcs : ExecExited(e)
    \/ \E e \in ExecProcs : ExecRunning(e)
    \/ \E e \in ExecProcs : ExecStore(e)
    \/ \E w \in StdinProcs, args \in PollArgs :
          stdin[w].calls < MaxCalls /\ StdinGet(w, args)
    \/ \E w \in StdinProcs : StdinExited(w)
    \/ \E w \in StdinProcs : StdinRunning(w)
    \/ \E h \in DOMAIN heap : ProcExit(h)

----------------------------------------------------------------------------
(* Specifications *)

\* no call of a pure function was made
NoCall == [op |-> "none"]

\* the buffer alone: the store is not in use
InitBufferOnly == InitBuffer /\ InitStoreUnused /\ call = NoCall

SpecBuffer == InitBufferOnly /\ [][NextBuffer]_vars

InitBufferUnused ==
    /\ buf = NewHeadTailBuffer(0)
    /\ pushed = <<>>
    /\ sinceDrain = <<>>
    /\ drains = 0
    /\ bufOp = [op |-> "new", chunk |-> <<>>, out |-> <<>>]

\* the store alone: the buffer is not in use
InitStoreOnly == InitStore /\ InitBufferUnused /\ call = NoCall

SpecStore == InitStoreOnly /\ [][NextStore]_vars

\* write_stdin with every kind of argument, next to exec_command calls whose
\* sessions are the most recently used: the store with no exited session in it
InitStdinOnly ==
    /\ InitStore
    /\ \A h \in DOMAIN heap : ~heap[h].exited
    /\ InitBufferUnused
    /\ call = NoCall

NextStdin ==
    \/ \E e \in ExecProcs : exec[e].calls < MaxCalls /\ ExecAllocate(e)
    \/ \E e \in ExecProcs :
          ExecStart(e) /\ heap'[NewHandle].LastUsed = InitialLastUsed(Prefill) + 1
    \/ \E e \in ExecProcs : ExecStartFails(e)
    \/ \E e \in ExecProcs : ExecExited(e)
    \/ \E e \in ExecProcs : ExecRunning(e)
    \/ \E e \in ExecProcs : ExecStore(e)
    \/ \E w \in StdinProcs, args \in StdinArgs : StdinGet(w, args)
    \/ \E w \in StdinProcs : StdinExited(w)
    \/ \E w \in StdinProcs : StdinRunning(w)
    \/ \E h \in DOMAIN heap : ProcExit(h)

SpecStdin == InitStdinOnly /\ [][NextStdin]_vars

\* ids that are used again: exec_command activities that make two calls each
\* and whose sessions are the most recently used, next to polls of the
\* stored sessions; at first no session has exited
NextReserve ==
    \/ \E e \in ExecProcs : ExecAllocate(e)
    \/ \E e \in ExecProcs :
          ExecStart(e) /\ heap'[NewHandle].LastUsed = InitialLastUsed(Prefill) + 1
    \/ \E e \in ExecProcs : ExecStartFails(e)
    \/ \E e \in ExecProcs : ExecExited(e)
    \/ \E e \in ExecProcs : ExecRunning(e)
    \/ \E e \in ExecProcs : ExecStore(e)
    \/ \E w \in StdinProcs, args \in PollArgs :
          stdin[w].calls < MaxCalls /\ StdinGet(w, args)
    \/ \E w \in StdinProcs : StdinExited(w)
    \/ \E w \in StdinProcs : StdinRunning(w)
    \/ \E h \in DOMAIN heap : ProcExit(h)

SpecReserve == InitStdinOnly /\ [][NextReserve]_vars

\* the yield time: the inputs of one call
InitYield ==
    \/ \E ms \in MsSample, minMs \in LimitSample, maxMs \in LimitSample :
          /\ minMs <= maxMs
          /\ call = [op |-> "input", fn |-> "clampYieldTime",
                     ms |-> ms, minMs |-> minMs, maxMs |-> maxMs]
    \/ \E fn \in {"exec_command", "write_stdin"}, args \in YieldArgs :
          call = [op |-> "input", fn |-> fn, args |-> args]

InitYieldOnly == InitYield /\ InitBufferUnused /\ InitStoreUnused

\* clampYieldTime(ms, minMs, maxMs) is called
ClampYieldTimeCall ==
    /\ call.op = "input"
    /\ call.fn = "clampYieldTime"
    /\ call' = [op |-> "clampYieldTime", ms |-> call.ms, minMs |-> call.minMs,
                maxMs |-> call.maxMs,
                result |-> clampYieldTime(call.ms, call.minMs, call.maxMs)]
    /\ UNCHANGED <<bufVars, storeVars>>

\* exec_command computes its yield time
ExecYieldCall ==
    /\ call.op = "input"
    /\ call.fn = "exec_command"
    /\ call' = [op |-> "exec_command", args |-> call.args,
                yieldMs |-> ExecYieldMs(call.args)]
    /\ UNCHANGED <<bufVars, storeVars>>

\* write_stdin computes its yield time
StdinYieldCall ==
    /\ call.op = "input"
    /\ call.fn = "write_stdin"
    /\ call' = [op |-> "write_stdin", args |-> call.args,
                yieldMs |-> StdinYieldMs(call.args)]
    /\ UNCHANGED <<bufVars, storeVars>>

NextYield ==
    \/ ClampYieldTimeCall
    \/ ExecYieldCall
    \/ StdinYieldCall

SpecYield == InitYieldOnly /\ [][NextYield]_vars

\* the approval gate: the inputs of one classification
InitClassify ==
    \E calls \in Batches, mode \in Modes, policyRules \in PolicySample :
       call = [op |-> "input", fn |-> "classifyToolsForApproval",
               functionCalls |-> calls, mode |-> mode, policyRules |-> policyRules]

InitClassifyOnly == InitClassify /\ InitBufferUnused /\ InitStoreUnused

\* ApprovalGate.Classify: classifyToolsForApproval is called
Classify ==
    /\ call.op = "input"
    /\ call.fn = "classifyToolsForApproval"
    /\ LET r == classifyToolsForApproval(call.functionCalls, call.mode, call.policyRules)
       IN call' = [fn |-> call.fn, op |-> "classifyToolsForApproval",
                   functionCalls |-> call.functionCalls, mode |-> call.mode,
                   policyRules |-> call.policyRules,
                   pending |-> r.pending, forbidden |-> r.forbidden]
    /\ UNCHANGED <<bufVars, storeVars>>

NextClassify == Classify

SpecClassify == InitClassifyOnly /\ [][NextClassify]_vars

\* the approval decision: a batch of calls and the response to it
InitDecision ==
    \E calls \in DecisionBatches, resp \in Responses :
       call = [op |-> "input", fn |-> "applyApprovalDecision",
               functionCalls |-> calls, resp |-> resp]

InitDecisionOnly == InitDecision /\ InitBufferUnused /\ InitStoreUnused

\* ApprovalGate.ApplyDecision: applyApprovalDecision is called
ApplyDecision ==
    /\ call.op = "input"
    /\ call.fn = "applyApprovalDecision"
    /\ LET r == applyApprovalDecision(call.functionCalls, call.resp)
       IN call' = [fn |-> call.fn, op |-> "applyApprovalDecision",
                   functionCalls |-> call.functionCalls, resp |-> call.resp,
                   approved |-> r.approved, denied |-> r.denied]
    /\ UNCHANGED <<bufVars, storeVars>>

\* ApprovalGate.ApplyDecision is called again on the same calls, with the
\* same response or any other one
ApplyDecisionAgain ==
    /\ call.op = "applyApprovalDecision"
    /\ \E resp \in Responses :
          LET r == applyApprovalDecision(call.functionCalls, resp)
          IN call' = [fn |-> call.fn, op |-> "applyApprovalDecisionAgain",
                      functionCalls |-> call.functionCalls, resp |-> call.resp,
                      approved |-> call.approved, denied |-> call.denied,
                      again |-> [resp |-> resp, approved |-> r.approved,
                                 denied |-> r.denied]]
    /\ UNCHANGED <<bufVars, storeVars>>

NextDecision ==
    \/ ApplyDecision
    \/ ApplyDecisionAgain

SpecDecision == InitDecisionOnly /\ [][NextDecision]_vars

\* escalation: the state of the session when handleOnFailureEscalation is
\* called with the results of a batch of tool calls
InitEscalation ==
    \E n \in 0..MaxResults :
       \E results \in ToolResults(n) :
          call = [op |-> "input", fn |-> "handleOnFailureEscalation",
                  functionCalls |-> EscalationCalls(n), toolResults |-> results,
                  failedIndices |-> {}, waited |-> FALSE, ret |-> <<>>,
                  re |-> <<>>, attempts |-> <<>>,
                  Phase |-> PhaseToolExecuting, PendingEscalations |-> <<>>,
                  EscalationReceived |-> FALSE, EscalationResponse |-> NilResp,
                  Interrupted |-> FALSE, ShutdownRequested |-> FALSE]

InitEscalationOnly == InitEscalation /\ InitBufferUnused /\ InitStoreUnused

\* handleOnFailureEscalation up to its return without failures or to
\* workflow.Await
FindFailed ==
    /\ call.op = "input"
    /\ call.fn = "handleOnFailureEscalation"
    /\ LET found == findFailed(call.functionCalls, call.toolResults, 1,
                               [failedIndices |-> {}, escalations |-> <<>>])
       IN IF Len(found.escalations) = 0
          THEN call' = [call EXCEPT !.op = "returned", !.ret = call.toolResults]
          ELSE call' = [call EXCEPT !.op = "await",
                                    !.waited = TRUE,
                                    !.failedIndices = found.failedIndices,
                                    !.Phase = PhaseEscalationPending,
                                    !.PendingEscalations = found.escalations,
                                    !.EscalationReceived = FALSE,
                                    !.EscalationResponse = NilResp]
    /\ UNCHANGED <<bufVars, storeVars>>

\* the escalation_response update arrives while the workflow waits
EscalationResponseUpdate ==
    /\ call.op = "await"
    /\ call.fn = "handleOnFailureEscalation"
    /\ ~call.EscalationReceived
    /\ \E resp \in EscalationResponses :
          call' = [call EXCEPT !.EscalationReceived = TRUE,
                               !.EscalationResponse = resp]
    /\ UNCHANGED <<bufVars, storeVars>>

\* the interrupt update arrives while the workflow waits
InterruptUpdate ==
    /\ call.op = "await"
    /\ ~call.Interrupted
    /\ call' = [call EXCEPT !.Interrupted = TRUE]
    /\ UNCHANGED <<bufVars, storeVars>>

\* the shutdown update arrives while the workflow waits
ShutdownUpdate ==
    /\ call.op = "await"
    /\ ~call.ShutdownRequested
    /\ call' = [call EXCEPT !.ShutdownRequested = TRUE]
    /\ UNCHANGED <<bufVars, storeVars>>

\* workflow.Await returns an error: the context is cancelled while the
\* condition is false
AwaitFails ==
    /\ call.op = "await"
    /\ call.fn = "handleOnFailureEscalation"
    /\ ~AwaitCondition(call.EscalationReceived, call.Interrupted, call.ShutdownRequested)
    /\ call' = [call EXCEPT !.op = "failed", !.ret = <<>>]
    /\ UNCHANGED <<bufVars, storeVars>>

\* handleOnFailureEscalation from the return of workflow.Await to its end
EscalationResume ==
    /\ call.op = "await"
    /\ call.fn = "handleOnFailureEscalation"
    /\ AwaitCondition(call.EscalationReceived, call.Interrupted, call.ShutdownRequested)
    /\ IF call.Interrupted \/ call.ShutdownRequested \/ call.EscalationResponse = NilResp
       THEN call' = [call EXCEPT !.op = "returned", !.PendingEscalations = <<>>,
                                 !.ret = call.toolResults]
       ELSE LET approvedSet == IDSet(call.EscalationResponse.Approved) IN
            \E re \in [1..Len(call.toolResults) -> UNION {ReResults(call.functionCalls[i]) :
                                                             i \in 1..Len(call.functionCalls)}] :
               /\ \A i \in 1..Len(call.toolResults) :
                     re[i] \in IF ReExecuted(call.toolResults, call.failedIndices, approvedSet, i)
                               THEN ReResults(call.functionCalls[i])
                               ELSE {NoReResult}
               /\ LET r == reExecute(call.toolResults, call.failedIndices, approvedSet, re)
                  IN call' = [call EXCEPT !.op = "returned", !.PendingEscalations = <<>>,
                                          !.re = re, !.attempts = r.attempts,
                                          !.ret = r.results]
    /\ UNCHANGED <<bufVars, storeVars>>

NextEscalation ==
    \/ FindFailed
    \/ EscalationResponseUpdate
    \/ InterruptUpdate
    \/ ShutdownUpdate
    \/ AwaitFails
    \/ EscalationResume

SpecEscalation == InitEscalationOnly /\ [][NextEscalation]_vars

\* request_user_input: the state of the session when handleRequestUserInput
\* is called; the flags of an earlier request may still be set
InitUserInput ==
    \E args \in UserInputArgs, received \in BOOLEAN, interrupted \in BOOLEAN :
       call = [op |-> "input", fn |-> "handleRequestUserInput",
               fc |-> FunctionCall(CallIDAt(1), "request_user_input", args),
               waited |-> FALSE, out |-> NoItem,
               Phase |-> PhaseToolExecuting, PendingUserInputReq |-> NilReq,
               UserInputQReceived |-> received,
               UserInputQResponse |-> IF received THEN [Answers |-> <<"a">>] ELSE NilResp,
               Interrupted |-> interrupted, ShutdownRequested |-> FALSE]

InitUserInputOnly == InitUserInput /\ InitBufferUnused /\ InitStoreUnused

\* handleRequestUserInput up to its return for invalid arguments or to
\* workflow.Await
RequestUserInput ==
    /\ call.op = "input"
    /\ call.fn = "handleRequestUserInput"
    /\ LET parsed == parseRequestUserInputArgs(call.fc.Arguments)
       IN IF parsed.err # <<>>
          THEN call' = [call EXCEPT
                           !.op = "returned",
                           !.out = UserInputOutput(call.fc,
                                      <<"Invalid request_user_input arguments: ", parsed.err>>,
                                      FALSE)]
          ELSE call' = [call EXCEPT
                           !.op = "await",
                           !.waited = TRUE,
                           !.Phase = PhaseUserInputPending,
                           !.PendingUserInputReq = [CallID |-> call.fc.CallID,
                                                    Questions |-> parsed.questions],
                           !.UserInputQReceived = FALSE,
                           !.UserInputQResponse = NilResp]
    /\ UNCHANGED <<bufVars, storeVars>>

\* the user_input_response update arrives while the workflow waits
UserInputResponseUpdate ==
    /\ call.op = "await"
    /\ call.fn = "handleRequestUserInput"
    /\ ~call.UserInputQReceived
    /\ \E resp \in UserInputResponses :
          call' = [call EXCEPT !.UserInputQReceived = TRUE,
                               !.UserInputQResponse = resp]
    /\ UNCHANGED <<bufVars, storeVars>>

\* workflow.Await returns an error: the context is cancelled while the
\* condition is false
UserInputAwaitFails ==
    /\ call.op = "await"
    /\ call.fn = "handleRequestUserInput"
    /\ ~AwaitCondition(call.UserInputQReceived, call.Interrupted, call.ShutdownRequested)
    /\ call' = [call EXCEPT !.op = "failed", !.out = NoItem]
    /\ UNCHANGED <<bufVars, storeVars>>

\* handleRequestUserInput from the return of workflow.Await to its end; the
\* response is plain data, which json.Marshal always encodes
UserInputResume ==
    /\ call.op = "await"
    /\ call.fn = "handleRequestUserInput"
    /\ AwaitCondition(call.UserInputQReceived, call.Interrupted, call.ShutdownRequested)
    /\ call' = [call EXCEPT
                   !.op = "returned",
                   !.PendingUserInputReq = NilReq,
                   !.out = IF call.Interrupted \/ call.ShutdownRequested
                           THEN InterruptedOutput(call.fc)
                           ELSE UserInputOutput(call.fc,
                                   <<"json", call.UserInputQResponse>>, TRUE)]
    /\ UNCHANGED <<bufVars, storeVars>>

NextUserInput ==
    \/ RequestUserInput
    \/ UserInputResponseUpdate
    \/ InterruptUpdate
    \/ ShutdownUpdate
    \/ UserInputAwaitFails
    \/ UserInputResume

SpecUserInput == InitUserInputOnly /\ [][NextUserInput]_vars

\* update_plan: a session without a plan
InitPlan ==
    call = [op |-> "input", fn |-> "handleUpdatePlan", Plan |-> NilPlan,
            fc |-> NoItem, out |-> NoItem, prev |-> NilPlan, calls |-> 0]

InitPlanOnly == InitPlan /\ InitBufferUnused /\ InitStoreUnused

\* SessionState.handleUpdatePlan on the next update_plan call of the session
UpdatePlan ==
    /\ call.fn = "handleUpdatePlan"
    /\ call.calls < MaxPlanCalls
    /\ \E args \in PlanArgs :
          LET fc == FunctionCall(CallIDAt(call.calls + 1), "update_plan", args)
              r == handleUpdatePlan(call.Plan, fc)
          IN call' = [op |-> "handleUpdatePlan", fn |-> "handleUpdatePlan",
                      Plan |-> r.Plan, fc |-> fc, out |-> r.out,
                      prev |-> call.Plan, calls |-> call.calls + 1]
    /\ UNCHANGED <<bufVars, storeVars>>

NextPlan == UpdatePlan

SpecPlan == InitPlanOnly /\ [][NextPlan]_vars

\* the tools the workflow handles itself: update_plan and request_user_input
InitIntercepts == InitPlan \/ InitUserInput

InitInterceptsOnly == InitIntercepts /\ InitBufferUnused /\ InitStoreUnused

NextIntercepts ==
    \/ UpdatePlan
    \/ RequestUserInput
    \/ UserInputResponseUpdate
    \/ InterruptUpdate
    \/ ShutdownUpdate
    \/ UserInputAwaitFails
    \/ UserInputResume

SpecIntercepts == InitInterceptsOnly /\ [][NextIntercepts]_vars

\* The turn status while a handler is suspended: handleOnFailureEscalation
\* with each executeToolsInParallel call of its loop as a step of its own,
\* and handleRequestUserInput

\* the results whose tool is still to be run again
ToReExecute(c) ==
    {i \in 1..Len(c.toolResults) :
        /\ ReExecuted(c.toolResults, c.failedIndices,
                      IDSet(c.EscalationResponse.Approved), i)
        /\ \A k \in 1..Len(c.attempts) : c.attempts[k] # i}

\* the first of them
NextToReExecute(c) ==
    CHOOSE i \in ToReExecute(c) : \A j \in ToReExecute(c) : i <= j

\* handleOnFailureEscalation from the return of workflow.Await to its return
\* or to the first executeToolsInParallel call of the loop
EscalationWake ==
    /\ call.op = "await"
    /\ call.fn = "handleOnFailureEscalation"
    /\ AwaitCondition(call.EscalationReceived, call.Interrupted, call.ShutdownRequested)
    /\ IF call.Interrupted \/ call.ShutdownRequested \/ call.EscalationResponse = NilResp
       THEN call' = [call EXCEPT !.op = "returned", !.PendingEscalations = <<>>,
                                 !.ret = call.toolResults]
       ELSE call' = [call EXCEPT !.op = IF ToReExecute(call) = {} THEN "returned"
                                        ELSE "reexecute",
                                 !.PendingEscalations = <<>>,
                                 !.ret = call.toolResults]
    /\ UNCHANGED <<bufVars, storeVars>>

\* executeToolsInParallel returns for the tool that is run again; the loop
\* goes on to the next call of executeToolsInParallel or to the return
ReExecuteReturns ==
    /\ call.op = "reexecute"
    /\ call.fn = "handleOnFailureEscalation"
    /\ LET i == NextToReExecute(call) IN
       \E r \in ReResults(call.functionCalls[i]) :
          call' = [call EXCEPT
                      !.op = IF ToReExecute(call) = {i} THEN "returned" ELSE "reexecute",
                      !.attempts = Append(call.attempts, i),
                      !.ret = IF ~r.err /\ Len(r.results) > 0
                              THEN [call.ret EXCEPT ![i] = r.results[1]]
                              ELSE call.ret]
    /\ UNCHANGED <<bufVars, storeVars>>

InitStatus == InitEscalation \/ InitUserInput

InitStatusOnly == InitStatus /\ InitBufferUnused /\ InitStoreUnused

NextStatus ==
    \/ FindFailed
    \/ EscalationResponseUpdate
    \/ InterruptUpdate
    \/ ShutdownUpdate
    \/ AwaitFails
    \/ EscalationWake
    \/ ReExecuteReturns
    \/ RequestUserInput
    \/ UserInputResponseUpdate
    \/ UserInputAwaitFails
    \/ UserInputResume

SpecStatus == InitStatusOnly /\ [][NextStatus]_vars

\* the paths that answer a call themselves: the classification, the approval
\* decision, update_plan and request_user_input
InitPairing == InitClassify \/ InitDecision \/ InitPlan \/ InitUserInput

InitPairingOnly == InitPairing /\ InitBufferUnused /\ InitStoreUnused

NextPairing ==
    \/ Classify
    \/ ApplyDecision
    \/ UpdatePlan
    \/ RequestUserInput
    \/ UserInputResponseUpdate
    \/ InterruptUpdate
    \/ ShutdownUpdate
    \/ UserInputAwaitFails
    \/ UserInputResume

SpecPairing == InitPairingOnly /\ [][NextPairing]_vars

\* the paths that decide where an output stands among the outputs of a
\* batch: the classification, the approval decision and the escalation
InitOrder == InitClassify \/ InitDecision \/ InitEscalation

InitOrderOnly == InitOrder /\ InitBufferUnused /\ InitStoreUnused

NextOrder ==
    \/ Classify
    \/ ApplyDecision
    \/ FindFailed
    \/ EscalationResponseUpdate
    \/ InterruptUpdate
    \/ ShutdownUpdate
    \/ AwaitFails
    \/ EscalationResume

SpecOrder == InitOrderOnly /\ [][NextOrder]_vars

\* the CLI of a new session and the log of its workflow: nothing appended,
\* nothing polled, nothing rendered
InitRender ==
    call = [op |-> "watching", fn |-> "renderNewItems",
            log |-> <<>>, running |-> TRUE, carried |-> <<>>,
            appended |-> 0, continuations |-> 0,
            pollCh |-> {}, seen |-> 0,
            lastRenderedSeq |-> InitialLastRenderedSeq, rendered |-> <<>>]

InitRenderOnly == InitRender /\ InitBufferUnused /\ InitStoreUnused

\* the orchestrator appends an entry, which gets the next seq
AppendItem ==
    /\ call.fn = "renderNewItems"
    /\ call.running
    /\ call.appended < MaxItems
    /\ \E seq \in NextSeqs(call.log, FirstSeqs, SeqGaps) :
          call' = [call EXCEPT !.log = Append(@, ConversationItem(seq, call.appended + 1)),
                               !.appended = @ + 1]
    /\ UNCHANGED <<bufVars, storeVars>>

\* size-based continuation: the activation ends and hands its log on
ContinueAsNew ==
    /\ call.fn = "renderNewItems"
    /\ call.running
    /\ call.continuations < MaxContinuations
    /\ call' = [call EXCEPT !.running = FALSE, !.carried = call.log, !.log = <<>>,
                             !.continuations = @ + 1]
    /\ UNCHANGED <<bufVars, storeVars>>

\* the next activation starts with the log it was handed
Restart ==
    /\ call.fn = "renderNewItems"
    /\ ~call.running
    /\ call' = [call EXCEPT !.running = TRUE, !.log = call.carried, !.carried = <<>>]
    /\ UNCHANGED <<bufVars, storeVars>>

\* Poller.Poll, run by RunPolling: the query fails, or returns the items of
\* the log as they are now; the result is on its way to the main loop
Poll ==
    /\ call.fn = "renderNewItems"
    /\ Cardinality(call.pollCh) < MaxInFlight
    /\ \E result \in {PollError} \cup (IF call.running THEN {PollResult(call.log)} ELSE {}) :
          /\ result \notin call.pollCh
          /\ call' = [call EXCEPT !.pollCh = @ \cup {result}]
    /\ UNCHANGED <<bufVars, storeVars>>

\* App.mainLoop, case result := <-a.pollCh: an error is passed over, the
\* items of any other result are rendered
ReceivePoll ==
    /\ call.fn = "renderNewItems"
    /\ \E result \in call.pollCh :
          IF result.Err
          THEN call' = [call EXCEPT !.pollCh = @ \ {result}]
          ELSE LET st == renderNewItems(result.Items, call.lastRenderedSeq, call.rendered)
               IN call' = [call EXCEPT !.pollCh = @ \ {result},
                                       !.seen = IF Len(result.Items) > @
                                                THEN Len(result.Items) ELSE @,
                                       !.lastRenderedSeq = st.lastRenderedSeq,
                                       !.rendered = st.rendered]
    /\ UNCHANGED <<bufVars, storeVars>>

NextRender ==
    \/ AppendItem
    \/ ContinueAsNew
    \/ Restart
    \/ Poll
    \/ ReceivePoll

SpecRender == InitRenderOnly /\ [][NextRender]_vars

\* the auto-compact limit: a configured limit and a context window
InitCompactLimit ==
    \E limit \in Limits, window \in Windows :
       call = [op |-> "input", fn |-> "effectiveAutoCompactLimit",
               AutoCompactTokenLimit |-> limit, ContextWindow |-> window, ret |-> 0]

\* the rebuilt history: a summary and the retained items
InitCompactHistory ==
    \E summary \in Texts, recentItems \in RetainedLists :
       call = [op |-> "input", fn |-> "buildCompactedHistory",
               summary |-> summary, recentItems |-> recentItems, ret |-> <<>>]

InitCompaction == InitCompactLimit \/ InitCompactHistory

InitCompactionOnly == InitCompaction /\ InitBufferUnused /\ InitStoreUnused

\* effectiveAutoCompactLimit is called
EffectiveAutoCompactLimit ==
    /\ call.op = "input"
    /\ call.fn = "effectiveAutoCompactLimit"
    /\ call' = [call EXCEPT !.op = "returned",
                             !.ret = effectiveAutoCompactLimit(call.AutoCompactTokenLimit,
                                                               call.ContextWindow)]
    /\ UNCHANGED <<bufVars, storeVars>>

\* buildCompactedHistory is called
BuildCompactedHistory ==
    /\ call.op = "input"
    /\ call.fn = "buildCompactedHistory"
    /\ call' = [call EXCEPT !.op = "returned",
                             !.ret = buildCompactedHistory(call.summary, call.recentItems)]
    /\ UNCHANGED <<bufVars, storeVars>>

NextCompaction ==
    \/ EffectiveAutoCompactLimit
    \/ BuildCompactedHistory

SpecCompaction == InitCompactionOnly /\ [][NextCompaction]_vars

\* a new session: no turn yet, the counter at its zero value
InitTurns ==
    call = [op |-> "idle", fn |-> "nextTurnID", TurnCounter |-> 0, turns |-> <<>>,
            running |-> TRUE, carried |-> 0, continuations |-> 0]

InitTurnsOnly == InitTurns /\ InitBufferUnused /\ InitStoreUnused

\* a turn starts: nextTurnID is called; the turn is recorded with the value
\* the counter had before the call
StartTurn ==
    /\ call.fn = "nextTurnID"
    /\ call.running
    /\ Len(call.turns) < MaxTurns
    /\ LET r == nextTurnID(call.TurnCounter)
       IN call' = [call EXCEPT !.op = "nextTurnID",
                               !.TurnCounter = r.TurnCounter,
                               !.turns = Append(@, [id |-> r.id, before |-> call.TurnCounter])]
    /\ UNCHANGED <<bufVars, storeVars>>

\* size-based continuation: the activation ends and hands its SessionState,
\* the turn counter included, to the next one
TurnsContinueAsNew ==
    /\ call.fn = "nextTurnID"
    /\ call.running
    /\ call.continuations < MaxContinuations
    /\ call' = [call EXCEPT !.op = "continue", !.running = FALSE,
                             !.carried = call.TurnCounter, !.TurnCounter = 0,
                             !.continuations = @ + 1]
    /\ UNCHANGED <<bufVars, storeVars>>

\* the next activation starts from the state it was handed
TurnsRestart ==
    /\ call.fn = "nextTurnID"
    /\ ~call.running
    /\ call' = [call EXCEPT !.op = "idle", !.running = TRUE,
                             !.TurnCounter = call.carried, !.carried = 0]
    /\ UNCHANGED <<bufVars, storeVars>>

NextTurns ==
    \/ StartTurn
    \/ TurnsContinueAsNew
    \/ TurnsRestart

SpecTurns == InitTurnsOnly /\ [][NextTurns]_vars

\* The CLI's main loop, its poller and readInput goroutines, and the
\* workflow they talk to. A session started with a message is watched, one
\* started without is asked for input.
InitMainLoop ==
    \/ call = [op |-> "mainLoop", fn |-> "mainLoop", state |-> "watching",
               lastRenderedSeq |-> InitialLastRenderedSeq,
               pollCh |-> <<>>, inputCh |-> <<>>,
               pollers |-> startPolling(<<>>, 0), pollCancel |-> 1,
               readers |-> 0, lines |-> 0, acted |-> 0, sent |-> 0,
               log |-> <<LogItem(0, ItemTypeUserMessage)>>,
               phase |-> PhaseLLMCalling, turnItems |-> 0]
    \/ call = [op |-> "mainLoop", fn |-> "mainLoop", state |-> "input",
               lastRenderedSeq |-> InitialLastRenderedSeq,
               pollCh |-> <<>>, inputCh |-> <<>>,
               pollers |-> <<>>, pollCancel |-> 0,
               readers |-> 1, lines |-> 0, acted |-> 0, sent |-> 0,
               log |-> <<>>,
               phase |-> PhaseWaitingForInput, turnItems |-> 0]

InitMainLoopOnly == InitMainLoop /\ InitBufferUnused /\ InitStoreUnused

\* the orchestrator appends an entry of the running turn
WorkflowAppend ==
    /\ call.phase = PhaseLLMCalling
    /\ call.turnItems < MaxTurnItems
    /\ call' = [call EXCEPT
                   !.log = Append(@, LogItem(Len(@), ItemTypeAssistantMessage)),
                   !.turnItems = @ + 1]
    /\ UNCHANGED <<bufVars, storeVars>>

\* the orchestrator ends the turn and waits for input
WorkflowTurnComplete ==
    /\ call.phase = PhaseLLMCalling
    /\ call' = [call EXCEPT
                   !.log = Append(@, LogItem(Len(@), ItemTypeTurnComplete)),
                   !.phase = PhaseWaitingForInput,
                   !.turnItems = 0]
    /\ UNCHANGED <<bufVars, storeVars>>

\* RunPolling, case <-ticker.C, and the first query of Poll: the items
PollItems(p) ==
    /\ call.pollers[p].pc = "ticker"
    /\ ~call.pollers[p].cancelled
    /\ call' = [call EXCEPT !.pollers[p] =
                   PollerOf(FALSE, "status", PollOf(call.log, ""))]
    /\ UNCHANGED <<bufVars, storeVars>>

\* the second query of Poll: the turn status
PollStatus(p) ==
    /\ call.pollers[p].pc = "status"
    /\ ~call.pollers[p].cancelled
    /\ call' = [call EXCEPT !.pollers[p] =
                   PollerOf(FALSE, "send",
                            PollOf(call.pollers[p].result.Items, call.phase))]
    /\ UNCHANGED <<bufVars, storeVars>>

\* a query of Poll fails: the context is cancelled, or the workflow does not
\* answer
PollFails(p) ==
    /\ call.pollers[p].pc \in {"ticker", "status"}
    /\ call' = [call EXCEPT !.pollers[p].pc = "send",
                            !.pollers[p].result = PollError]
    /\ UNCHANGED <<bufVars, storeVars>>

\* RunPolling, case ch <- result: the channel has room; the select takes this
\* case also when the context is done
PollerSend(p) ==
    /\ call.pollers[p].pc = "send"
    /\ Len(call.pollCh) < ChannelCap
    /\ call' = [call EXCEPT !.pollCh = Append(@, call.pollers[p].result),
                            !.pollers[p].pc = "ticker",
                            !.pollers[p].result = PollError]
    /\ UNCHANGED <<bufVars, storeVars>>

\* RunPolling, case <-ctx.Done() of either select
PollerReturn(p) ==
    /\ call.pollers[p].pc \in {"ticker", "send"}
    /\ call.pollers[p].cancelled
    /\ call' = [call EXCEPT !.pollers[p].pc = "done",
                            !.pollers[p].result = PollError]
    /\ UNCHANGED <<bufVars, storeVars>>

\* mainLoop, case result := <-a.pollCh
MainPollResult ==
    /\ call.pollCh # <<>>
    /\ LET result == Head(call.pollCh) IN
       IF result.Err
       THEN call' = [call EXCEPT !.pollCh = Tail(@)]
       ELSE LET st == renderNewItems(result.Items, call.lastRenderedSeq, <<>>) IN
            IF /\ isTurnComplete(result.Items, st.lastRenderedSeq)
               /\ result.Phase = PhaseWaitingForInput
            THEN call' = [call EXCEPT
                             !.pollCh = Tail(@),
                             !.lastRenderedSeq = st.lastRenderedSeq,
                             !.pollers = stopPolling(@, call.pollCancel),
                             !.pollCancel = 0,
                             !.state = "input",
                             !.acted = IF call.state = "input" THEN @ + 1 ELSE @,
                             !.readers = @ + 1]
            ELSE call' = [call EXCEPT !.pollCh = Tail(@),
                                      !.lastRenderedSeq = st.lastRenderedSeq]
    /\ UNCHANGED <<bufVars, storeVars>>

\* readInput: Readline returns a line, which goes to inputCh
Readline ==
    /\ call.readers > 0
    /\ call.lines < MaxLines
    /\ Len(call.inputCh) < ChannelCap
    /\ \E line \in TypedLines :
          call' = [call EXCEPT !.readers = @ - 1,
                               !.lines = @ + 1,
                               !.inputCh = Append(@, line)]
    /\ UNCHANGED <<bufVars, storeVars>>

\* mainLoop, case line := <-a.inputCh: an empty line, a message the workflow
\* accepts, a message whose update fails
MainInputLine ==
    /\ call.inputCh # <<>>
    /\ \/ /\ Head(call.inputCh) = ""
          /\ call' = [call EXCEPT !.inputCh = Tail(@), !.readers = @ + 1]
       \/ /\ Head(call.inputCh) # ""
          /\ call' = [call EXCEPT !.inputCh = Tail(@), !.readers = @ + 1]
       \/ /\ Head(call.inputCh) # ""
          /\ call.phase = PhaseWaitingForInput
          /\ call' = [call EXCEPT
                         !.inputCh = Tail(@),
                         !.log = Append(@, LogItem(Len(@), ItemTypeUserMessage)),
                         !.phase = PhaseLLMCalling,
                         !.sent = @ + 1,
                         !.state = "watching",
                         !.pollers = startPolling(@, call.pollCancel),
                         !.pollCancel = Len(call.pollers) + 1]
    /\ UNCHANGED <<bufVars, storeVars>>

NextMainLoop ==
    \/ WorkflowAppend
    \/ WorkflowTurnComplete
    \/ \E p \in 1..Len(call.pollers) : PollItems(p)
    \/ \E p \in 1..Len(call.pollers) : PollStatus(p)
    \/ \E p \in 1..Len(call.pollers) : PollFails(p)
    \/ \E p \in 1..Len(call.pollers) : PollerSend(p)
    \/ \E p \in 1..Len(call.pollers) : PollerReturn(p)
    \/ MainPollResult
    \/ Readline
    \/ MainInputLine

SpecMainLoop == InitMainLoopOnly /\ [][NextMainLoop]_vars

\* toolCallsKey on two batches
InitKeys ==
    \E a \in KeyBatches, b \in KeyBatches :
       call = [op |-> "input", fn |-> "toolCallsKey", a |-> a, b |-> b,
               keyA |-> <<>>, keyB |-> <<>>]

InitKeysOnly == InitKeys /\ InitBufferUnused /\ InitStoreUnused

ToolCallsKey ==
    /\ call.op = "input"
    /\ call.fn = "toolCallsKey"
    /\ call' = [call EXCEPT !.op = "toolCallsKey",
                            !.keyA = toolCallsKey(call.a),
                            !.keyB = toolCallsKey(call.b)]
    /\ UNCHANGED <<bufVars, storeVars>>

NextKeys == ToolCallsKey

SpecKeys == InitKeysOnly /\ [][NextKeys]_vars

\* the two gates that wait for the user, with the scheduling of the
\* orchestrator: a handler whose Await condition holds runs on
InitGates == InitEscalation \/ InitUserInput

InitGatesOnly == InitGates /\ InitBufferUnused /\ InitStoreUnused

NextGates ==
    \/ FindFailed
    \/ EscalationResponseUpdate
    \/ RequestUserInput
    \/ UserInputResponseUpdate
    \/ InterruptUpdate
    \/ ShutdownUpdate
    \/ AwaitFails
    \/ UserInputAwaitFails
    \/ EscalationResume
    \/ UserInputResume

SpecGates ==
    /\ InitGatesOnly
    /\ [][NextGates]_vars
    /\ WF_vars(EscalationResume)
    /\ WF_vars(UserInputResume)

----------------------------------------------------------------------------
(* Claims about the HeadTailBuffer (SpecBuffer) *)

\* floor(maxBytes/2) and ceil(maxBytes/2)
FloorHalf(m) == m \div 2

CeilHalf(m) == (m + 1) \div 2

\* the first n and the last n elements of a sequence
FirstN(s, n) == SubSeq(s, 1, n)

LastN(s, n) == SubSeq(s, Len(s) - n + 1, Len(s))

\* C1: in every state reachable by Push and DrainChunks calls, for every
\* maxBytes (0 and 1 included), RetainedBytes() <= maxBytes and Snapshot()
\* returns exactly RetainedBytes() bytes.
C1_Bound ==
    /\ RetainedBytes(buf) <= buf.maxBytes
    /\ Len(Snapshot(buf)) = RetainedBytes(buf)

\* the tail of a one-byte buffer was trimmed after a drain: bound and overflow meet
C1_Witness ==
    /\ buf.maxBytes = 1
    /\ drains = 1
    /\ OmittedBytes(buf) > 0
    /\ RetainedBytes(buf) = buf.maxBytes
    /\ bufOp.op = "Push"

\* C2 as stated: RetainedBytes() + OmittedBytes() = TotalWritten() in every
\* state reachable by Push and DrainChunks calls.
C2_Original ==
    RetainedBytes(buf) + OmittedBytes(buf) = TotalWritten(buf)

\* C2 amended: TotalWritten() is the number of bytes ever pushed, and
\* RetainedBytes() + OmittedBytes() is the number of bytes pushed since the
\* last DrainChunks call (so it equals TotalWritten() until the first drain).
C2_Accounting ==
    /\ TotalWritten(buf) = Len(pushed)
    /\ RetainedBytes(buf) + OmittedBytes(buf) = Len(sinceDrain)
    /\ drains = 0 => RetainedBytes(buf) + OmittedBytes(buf) = TotalWritten(buf)

\* bytes were dropped after a drain, and more were written than since the drain
C2_Witness ==
    /\ drains = 1
    /\ OmittedBytes(buf) > 0
    /\ RetainedBytes(buf) > 0
    /\ TotalWritten(buf) > Len(sinceDrain)

\* C3: after Push calls only, once more than maxBytes bytes were pushed,
\* Snapshot() is the first floor(maxBytes/2) bytes ever pushed followed by the
\* last ceil(maxBytes/2) bytes ever pushed, however they were chunked.
C3_HeadTailContent ==
    (drains = 0 /\ Len(pushed) > buf.maxBytes) =>
        Snapshot(buf) = FirstN(pushed, FloorHalf(buf.maxBytes))
                        \o LastN(pushed, CeilHalf(buf.maxBytes))

\* a four-byte chunk arrived at a four-byte buffer whose head held one byte: it
\* straddles the head/tail boundary and its rest overflows the tail budget
C3_Witness ==
    /\ drains = 0
    /\ buf.maxBytes = 4
    /\ Len(pushed) = 5
    /\ bufOp.op = "Push"
    /\ Len(bufOp.chunk) = 4
    /\ Len(buf.head) = 2
    /\ OmittedBytes(buf) = 1
    /\ pushed = <<0, 1, 1, 0, 1>>

C4_NoLoss ==
    (drains = 0 /\ Len(pushed) <= buf.maxBytes) =>
        /\ OmittedBytes(buf) = 0
        /\ Snapshot(buf) = pushed

C4_EmptyPush ==
    (bufOp'.op = "Push" /\ bufOp'.chunk = <<>>) => buf' = buf

\* C4: while the pushes total at most maxBytes, OmittedBytes() = 0 and
\* Snapshot() is the concatenation of the pushed chunks in push order; an
\* empty (or nil) push changes nothing.
C4_NoLossBelowCap ==
    C4_NoLoss /\ [][C4_NoLoss' /\ C4_EmptyPush]_vars

\* a chunk was split across head and tail and nothing was lost
C4_Witness ==
    /\ drains = 0
    /\ buf.maxBytes = 4
    /\ Len(pushed) = 4
    /\ Len(buf.head) = 2
    /\ Len(buf.tail) = 1
    /\ Len(bufOp.chunk) = 2
    /\ pushed = <<0, 1, 1, 0>>

----------------------------------------------------------------------------
(* Claims about the session store and exec_command (SpecStore) *)

\* the step in which activity e's Store call runs
StoreStep(e) == exec[e].pc = "store" /\ exec'[e].pc = "idle"

\* the sessions map of that call after line 239, before any pruning
Inserted(e) == MapPut(sessions, exec[e].processID, exec[e].sess)

\* what that call evicted
Evicted(e) == DOMAIN Inserted(e) \ DOMAIN sessions'

\* LastUsed and exited of the session stored under id when the call pruned
LastUsedOf(e, id) == heap[Inserted(e)[id]].LastUsed

ExitedOf(e, id) == heap[Inserted(e)[id]].exited

\* the other sessions at least as recently used as id, and those more recently used
AtLeastAsRecent(e, id) ==
    {o \in DOMAIN Inserted(e) \ {id} : LastUsedOf(e, o) >= LastUsedOf(e, id)}

MoreRecent(e, id) ==
    {o \in DOMAIN Inserted(e) \ {id} : LastUsedOf(e, o) > LastUsedOf(e, id)}

\* some session was evicted and closed, and the store is full
EvictionHappened ==
    /\ Count = MaxSessions
    /\ \E h \in DOMAIN heap : heap[h].closed /\ heap[h].ProcessID \notin DOMAIN sessions

\* C5: after every Store call returns (and so in every state, the store being
\* changed under its mutex only), at most MaxSessions sessions are stored,
\* for every interleaving of the activities' Store, Remove and Get calls.
C5_Capacity == Count <= MaxSessions

\* a Store call found the store full and pruned it back to MaxSessions
C5_Witness ==
    /\ EvictionHappened
    /\ \A e \in ExecProcs : exec[e].pc = "idle" /\ exec[e].calls = MaxCalls

\* C6: the victim of a Store call's eviction is never among the ProtectedCount
\* most recently used sessions of the store at that moment: at least
\* ProtectedCount other sessions are at least as recently used as it, be they
\* running or exited.
C6_Protection ==
    [][\A e \in ExecProcs : StoreStep(e) =>
          \A v \in Evicted(e) : Cardinality(AtLeastAsRecent(e, v)) >= ProtectedCount]_vars

\* an eviction took the oldest session, which was running, while the most
\* recently used initial sessions had exited
C6_Witness ==
    /\ EvictionHappened
    /\ heap[1].closed /\ ~heap[1].exited
    /\ \A i \in (Prefill - ProtectedCount + 2)..Prefill :
          heap[i].exited /\ ~heap[i].closed /\ heap[i].ProcessID \in DOMAIN sessions

\* C7: the victim of an eviction is exited whenever some unprotected session
\* has exited, and is then the least recently used exited session; a running
\* session is evicted only when no unprotected session has exited, and is then
\* the least recently used session of all.
C7_Preference ==
    [][\A e \in ExecProcs : StoreStep(e) =>
          \A v \in Evicted(e) :
             /\ ExitedOf(e, v) =>
                   \A s \in DOMAIN Inserted(e) :
                      ExitedOf(e, s) => LastUsedOf(e, v) <= LastUsedOf(e, s)
             /\ ~ExitedOf(e, v) =>
                   /\ \A s \in DOMAIN Inserted(e) : LastUsedOf(e, v) <= LastUsedOf(e, s)
                   /\ \A s \in DOMAIN Inserted(e) :
                         ExitedOf(e, s) => Cardinality(MoreRecent(e, s)) < ProtectedCount]_vars

\* an eviction took the third oldest session, the only exited one, and left
\* the two older running sessions in the store
C7_Witness ==
    /\ EvictionHappened
    /\ heap[3].closed /\ heap[3].exited
    /\ ~heap[1].closed /\ ~heap[1].exited /\ heap[1].ProcessID \in DOMAIN sessions
    /\ ~heap[2].closed /\ ~heap[2].exited /\ heap[2].ProcessID \in DOMAIN sessions

\* C8: a Store call that overflows the cap evicts exactly one session: the
\* victim's process is closed, Get on its id then returns ErrUnknownProcessID
\* and its id is no longer reserved; every other stored session stays stored
\* and untouched.
C8_EvictionEffect ==
    [][\A e \in ExecProcs :
          (StoreStep(e) /\ Cardinality(DOMAIN Inserted(e)) > MaxSessions) =>
             \E v \in DOMAIN Inserted(e) :
                LET h == Inserted(e)[v] IN
                /\ sessions' = MapDelete(Inserted(e), v)
                /\ heap' = [heap EXCEPT ![h].closed = TRUE]
                /\ Get(v)'.err = "ErrUnknownProcessID"
                /\ v \notin reserved'
                /\ reserved' = (reserved \cup {exec[e].processID}) \ {v}]_vars

\* an eviction closed an initial session and released its id; the session
\* just stored is in the store
C8_Witness ==
    /\ EvictionHappened
    /\ \E h \in 1..Prefill :
          /\ heap[h].closed
          /\ heap[h].ProcessID \notin DOMAIN sessions
          /\ heap[h].ProcessID \notin reserved
    /\ \E e \in ExecProcs :
          /\ exec[e].pc = "idle"
          /\ exec[e].processID \in DOMAIN sessions
          /\ sessions[exec[e].processID] = exec[e].sess

RECURSIVE Atoi(_)
\* strconv.Atoi of a string of digits
Atoi(s) == IF s = <<>> THEN 0 ELSE 10 * Atoi(SubSeq(s, 1, Len(s) - 1)) + s[Len(s)]

\* a decimal id in [MinProcessID, MaxProcessID)
ValidProcessID(id) ==
    /\ id # NoID
    /\ \A i \in 1..Len(id) : id[i] \in 0..9
    /\ id[1] # 0
    /\ Atoi(id) >= MinProcessID
    /\ Atoi(id) < MaxProcessID

C9_Unique == \A id \in DOMAIN live : live[id] <= 1

C9_Allocation ==
    \A e \in ExecProcs :
       (exec[e].pc = "idle" /\ exec'[e].pc = "allocated") =>
          /\ ValidProcessID(exec'[e].processID)
          /\ exec'[e].processID \notin reserved
          /\ exec'[e].processID \in reserved'

Lines(resp, label) ==
    IF "Content" \in DOMAIN resp
    THEN {i \in 1..Len(resp.Content) : resp.Content[i][1] = label}
    ELSE {}

\* C10: exec_command outcome. If the process has exited when output
\* collection ends, the response carries an Exit code line and no Session ID
\* line, the id is released and nothing is stored; otherwise the session is
\* stored under the allocated id and the response carries a Session ID line
\* with that id and no Exit code line. A start failure releases the id and
\* stores nothing.
C10_ExecOutcome ==
    [][\A e \in ExecProcs :
          /\ (exec[e].pc = "started" /\ exec'[e].pc = "idle") =>
                /\ HasExited(exec[e].sess)
                /\ Lines(exec'[e].resp, "Exit code") # {}
                /\ Lines(exec'[e].resp, "Session ID") = {}
                /\ exec[e].processID \notin reserved'
                /\ sessions' = sessions
          /\ (exec[e].pc = "store" /\ exec'[e].pc = "idle") =>
                /\ Lines(exec'[e].resp, "Exit code") = {}
                /\ \E i \in Lines(exec'[e].resp, "Session ID") :
                      exec'[e].resp.Content[i] = <<"Session ID", exec[e].processID>>
                /\ exec[e].processID \in DOMAIN sessions'
                /\ sessions'[exec[e].processID] = exec[e].sess
          /\ (exec[e].pc = "allocated" /\ exec'[e].pc = "idle") =>
                /\ exec[e].processID \notin reserved'
                /\ sessions' = sessions]_vars

----------------------------------------------------------------------------
(* Claims about write_stdin (SpecStdin) *)

\* the step in which activity w's write_stdin call begins
StdinCallStep(w) == stdin[w].pc = "idle" /\ stdin'[w].calls = stdin[w].calls + 1

\* the step in which activity w's call ends after it collected output
StdinCollectedStep(w) == stdin[w].pc = "collect" /\ stdin'[w].pc = "idle"

\* what the call does once it has collected output
C11_Collected(w) ==
    LET id == stdin[w].sessionID
        resp == stdin'[w].resp
    IN IF HasExited(stdin[w].sess)
       THEN /\ id \notin DOMAIN sessions'
            /\ \A o \in DOMAIN sessions' : sessions'[o] # stdin[w].sess
            /\ id \notin reserved'
            /\ Lines(resp, "Exit code") # {}
            /\ Lines(resp, "Session ID") = {}
       ELSE /\ sessions' = sessions
            /\ reserved' = reserved
            /\ \E i \in Lines(resp, "Session ID") : resp.Content[i] = <<"Session ID", id>>

C12_UnknownSession ==
    [][\A w \in StdinProcs :
          (/\ StdinCallStep(w)
           /\ "session_id" \in DOMAIN stdin'[w].args
           /\ stdin'[w].args["session_id"].type = "float64"
           /\ Itoa(stdin'[w].args["session_id"].tenths \div 10) \notin DOMAIN sessions)
          => /\ stdin'[w].pc = "idle"
             /\ "Error" \notin DOMAIN stdin'[w].resp
             /\ stdin'[w].resp.Success = FALSE
             /\ Lines(stdin'[w].resp, "Unknown session ID") # {}
             /\ heap' = heap
             /\ sessions' = sessions
             /\ reserved' = reserved]_vars

\* a write of chars to session id 0.5, which is id 0, was answered with the
\* unknown-session failure
C12_Witness ==
    \E w \in StdinProcs :
       /\ stdin[w].pc = "idle"
       /\ stdin[w].calls >= 1
       /\ stdin[w].args = [session_id |-> Float64(5), chars |-> StringVal("x")]
       /\ stdin[w].resp = UnknownSessionOutput(Itoa(0))

----------------------------------------------------------------------------
(* Claims about the yield time (SpecYield) *)

\* ms within [lo, hi]
Clamped(ms, lo, hi) == IF ms < lo THEN lo ELSE IF ms > hi THEN hi ELSE ms

\* the yield_time_ms argument is a whole number of ms
WholeYield(args) ==
    /\ "yield_time_ms" \in DOMAIN args
    /\ \/ args["yield_time_ms"].type = "int"
       \/ /\ args["yield_time_ms"].type = "float64"
          /\ args["yield_time_ms"].tenths % 10 = 0

\* that number
YieldOf(args) ==
    IF args["yield_time_ms"].type = "int"
    THEN args["yield_time_ms"].val
    ELSE args["yield_time_ms"].tenths \div 10

\* C13: clampYieldTime(ms, min, max) is min below min, max above max and ms
\* otherwise; exec_command clamps to [250, 30000] with default 10000;
\* write_stdin clamps to [250, 30000] when chars is not empty and to
\* [5000, 30000] when it is, so that an empty poll never yields before
\* 5000 ms whatever yield_time_ms is.
C13_YieldClamp ==
    /\ call.op = "clampYieldTime" =>
          call.result = Clamped(call.ms, call.minMs, call.maxMs)
    /\ call.op = "exec_command" =>
          /\ call.yieldMs \in 250..30000
          /\ "yield_time_ms" \notin DOMAIN call.args => call.yieldMs = 10000
          /\ WholeYield(call.args) =>
                call.yieldMs = Clamped(YieldOf(call.args), 250, 30000)
    /\ call.op = "write_stdin" =>
          IF CharsOf(call.args) = ""
          THEN /\ call.yieldMs \in 5000..30000
               /\ WholeYield(call.args) =>
                     call.yieldMs = Clamped(YieldOf(call.args), 5000, 30000)
          ELSE /\ call.yieldMs \in 250..30000
               /\ WholeYield(call.args) =>
                     call.yieldMs = Clamped(YieldOf(call.args), 250, 30000)

\* an empty poll that asked for 250 ms yields after 5000 ms
C13_Witness ==
    /\ call.op = "write_stdin"
    /\ call.args = [chars |-> StringVal(""), yield_time_ms |-> Float64(2500)]
    /\ call.yieldMs = 5000

----------------------------------------------------------------------------
(* Claims about the approval gate (SpecClassify) *)

\* a classification was made
Classified == call.op = "classifyToolsForApproval"

\* the indexes of the pending approvals and forbidden outputs of a call id
PendingOf(callID) == {i \in 1..Len(call.pending) : call.pending[i].CallID = callID}

ForbiddenOf(callID) == {i \in 1..Len(call.forbidden) : call.forbidden[i].CallID = callID}

\* some call of the batch runs a program the policy forbids
BatchHasForbidden ==
    /\ call.policyRules.src = "rules"
    /\ \E i \in 1..Len(call.functionCalls) :
          /\ call.functionCalls[i].Name = "shell"
          /\ call.functionCalls[i].Arguments \in
                {ObjectJSON([command |-> ArrayVal(<<StringVal("rm"), StringVal("-rf"), StringVal("/")>>)])}
          /\ call.policyRules.mgr["rm"].Decision = DecisionForbidden

\* C14: in mode never the classification of every batch under every policy,
\* one that forbids a command of the batch included, has no pending approval
\* and no forbidden output.
C14_ModeNever ==
    (Classified /\ call.mode = "never") =>
       (call.pending = <<>> /\ call.forbidden = <<>>)

\* mode never classified a batch with a write_file call and an rm -rf / that
\* the policy forbids
C14_Witness ==
    /\ Classified
    /\ call.mode = "never"
    /\ BatchHasForbidden
    /\ \E i \in 1..Len(call.functionCalls) : call.functionCalls[i].Name = "write_file"
    /\ call.pending = <<>>
    /\ call.forbidden = <<>>

\* the calls of the batch, by index
BatchIndexes == 1..Len(call.functionCalls)

\* C15: read_file, list_dir, grep_files, request_user_input and update_plan
\* calls are skipped in every mode and under every policy, whatever their
\* arguments: none of them is pending and none has a forbidden output.
C15_SafeTools ==
    Classified =>
       \A i \in BatchIndexes :
          call.functionCalls[i].Name \in
             {"read_file", "list_dir", "grep_files", "request_user_input", "update_plan"}
          => /\ PendingOf(call.functionCalls[i].CallID) = {}
             /\ ForbiddenOf(call.functionCalls[i].CallID) = {}

\* in mode unless-trusted an update_plan call whose arguments are not JSON was
\* skipped next to an rm -rf / that the policy forbids
C15_Witness ==
    /\ Classified
    /\ call.mode = "unless-trusted"
    /\ BatchHasForbidden
    /\ Len(call.forbidden) = 1
    /\ call.pending = <<>>
    /\ \E i \in BatchIndexes :
          /\ call.functionCalls[i].Name = "update_plan"
          /\ call.functionCalls[i].Arguments = InvalidJSON

\* C16: in the modes on-failure and unless-trusted, under every policy, each
\* write_file or apply_patch call has exactly one pending approval, which
\* carries its call id, tool name and arguments; it is never skipped and
\* never forbidden.
C16_MutatingTools ==
    (Classified /\ call.mode \in {"on-failure", "unless-trusted"}) =>
       \A i \in BatchIndexes :
          LET fc == call.functionCalls[i] IN
          fc.Name \in {"write_file", "apply_patch"}
          => /\ Cardinality(PendingOf(fc.CallID)) = 1
             /\ \A j \in PendingOf(fc.CallID) :
                   /\ call.pending[j].ToolName = fc.Name
                   /\ call.pending[j].Arguments = fc.Arguments
             /\ ForbiddenOf(fc.CallID) = {}

\* in mode on-failure, under a policy that allows every program, a write_file
\* and an apply_patch call are both pending, in the order of the batch
C16_Witness ==
    /\ Classified
    /\ call.mode = "on-failure"
    /\ call.policyRules.src = "rules"
    /\ \A pr \in Programs : call.policyRules.mgr[pr].Decision = DecisionAllow
    /\ Len(call.functionCalls) = 2
    /\ call.functionCalls[1].Name = "write_file"
    /\ call.functionCalls[2].Name = "apply_patch"
    /\ Len(call.pending) = 2
    /\ call.pending[1].CallID = call.functionCalls[1].CallID
    /\ call.pending[2].CallID = call.functionCalls[2].CallID

\* the program of a shell or shell_command call with a well-formed command
ProgramOfCall(fc) ==
    IF fc.Name = "shell" /\ fc.Arguments = ObjectJSON([command |-> ArrayVal(<<StringVal("ls")>>)])
    THEN "ls"
    ELSE IF fc.Name = "shell" /\ fc.Arguments =
               ObjectJSON([command |-> ArrayVal(<<StringVal("rm"), StringVal("-rf"), StringVal("/")>>)])
    THEN "rm"
    ELSE IF fc.Name = "shell_command" /\ fc.Arguments = ObjectJSON([command |-> StringVal(Ls)])
    THEN "ls"
    ELSE IF fc.Name = "shell_command" /\ fc.Arguments \in
               {ObjectJSON([command |-> StringVal(RmRf)]),
                ObjectJSON([command |-> StringVal(RmRf), login |-> BoolVal(FALSE)])}
    THEN "rm"
    ELSE "none"

\* the exec policy was asked about the call and decided it is forbidden
PolicyForbids(fc) ==
    /\ call.mode \in {"on-failure", "unless-trusted"}
    /\ call.policyRules.src = "rules"
    /\ ProgramOfCall(fc) \in Programs
    /\ call.policyRules.mgr[ProgramOfCall(fc)].Decision = DecisionForbidden

\* the justification the policy gave
JustificationOf(fc) == call.policyRules.mgr[ProgramOfCall(fc)].Justification

\* the forbidden call has one failed output with its call id and is not pending
C17_OneOutput(fc) ==
    /\ Cardinality(ForbiddenOf(fc.CallID)) = 1
    /\ PendingOf(fc.CallID) = {}
    /\ \A j \in ForbiddenOf(fc.CallID) :
          /\ call.forbidden[j].Type = "function_call_output"
          /\ call.forbidden[j].Output.Success = FALSE

\* C17 as stated: the content of the output of every forbidden call starts
\* with "Forbidden".
C17_Original ==
    Classified =>
       \A i \in BatchIndexes :
          LET fc == call.functionCalls[i] IN
          PolicyForbids(fc)
          => /\ C17_OneOutput(fc)
             /\ \A j \in ForbiddenOf(fc.CallID) :
                   call.forbidden[j].Output.Content[1] = "Forbidden: "

\* C17: every call the exec policy decides is forbidden gets exactly one
\* function_call_output with its call id and success=false and is not
\* pending; the content is "Forbidden: " and the justification when the
\* policy gave one, and "This command is forbidden by exec policy." when it
\* gave none.
C17_Forbidden ==
    Classified =>
       \A i \in BatchIndexes :
          LET fc == call.functionCalls[i] IN
          PolicyForbids(fc)
          => /\ C17_OneOutput(fc)
             /\ \A j \in ForbiddenOf(fc.CallID) :
                   call.forbidden[j].Output.Content =
                      IF JustificationOf(fc) # ""
                      THEN <<"Forbidden: ", JustificationOf(fc)>>
                      ELSE <<"This command is forbidden by exec policy.">>

\* in mode unless-trusted a shell_command rm -rf / the policy forbids as
\* destructive got its output, next to an ls that was allowed
C17_Witness ==
    /\ Classified
    /\ call.mode = "unless-trusted"
    /\ Len(call.functionCalls) = 2
    /\ call.functionCalls[1].Name = "shell_command"
    /\ PolicyForbids(call.functionCalls[1])
    /\ JustificationOf(call.functionCalls[1]) = "destructive"
    /\ ProgramOfCall(call.functionCalls[2]) = "ls"
    /\ call.pending = <<>>
    /\ Len(call.forbidden) = 1
    /\ call.forbidden[1].CallID = call.functionCalls[1].CallID
    /\ call.forbidden[1].Output.Content = <<"Forbidden: ", "destructive">>

----------------------------------------------------------------------------
(* Claims about the approval decision (SpecDecision) *)

\* a decision was applied
Decided == call.op \in {"applyApprovalDecision", "applyApprovalDecisionAgain"}

\* the ids of the approved and of the denied list; a nil response has neither
ApprovedIDs(resp) == IF resp = NilResp THEN {} ELSE IDSet(resp.Approved)

DeniedIDs(resp) == IF resp = NilResp THEN {} ELSE IDSet(resp.Denied)

\* the positions of a list of items that carry the call id
WithID(items, id) == {j \in 1..Len(items) : items[j].CallID = id}

\* the positions of a list of items that hold the call
Holding(items, fc) == {j \in 1..Len(items) : items[j] = fc}

\* each call with a denied id has its own output, which has the denied
\* content and success=false, and none of them proceeds
C18_DeniedPart ==
    \A id \in DeniedIDs(call.resp) :
       /\ Cardinality(WithID(call.denied, id)) = Cardinality(WithID(call.functionCalls, id))
       /\ WithID(call.approved, id) = {}
       /\ \A j \in WithID(call.denied, id) : call.denied[j] =
             [Type |-> "function_call_output", CallID |-> id,
              Output |-> [Content |-> <<"User denied execution of this tool call.">>,
                          Success |-> FALSE]]

\* the calls that proceed and the denied outputs cover each call once
C18_Cover ==
    /\ Len(call.approved) + Len(call.denied) = Len(call.functionCalls)
    /\ \A id \in DecisionIDs :
          Cardinality(WithID(call.approved, id)) + Cardinality(WithID(call.denied, id))
             = Cardinality(WithID(call.functionCalls, id))
    /\ \A j \in 1..Len(call.approved) :
          Cardinality(Holding(call.approved, call.approved[j]))
             <= Cardinality(Holding(call.functionCalls, call.approved[j]))

SameDecision(r1, r2) ==
    \/ r1 = NilResp /\ r2 = NilResp
    \/ /\ r1 # NilResp
       /\ r2 # NilResp
       /\ IDSet(r1.Approved) = IDSet(r2.Approved)
       /\ IDSet(r1.Denied) = IDSet(r2.Denied)

\* C19: for a fixed list of calls the calls that proceed and the denied
\* outputs, with their order, are the same for every permutation and every
\* duplication of the ids in the approved and denied lists of the response,
\* and applying the same response again gives the same result.
C19_Idempotence ==
    (call.op = "applyApprovalDecisionAgain" /\ SameDecision(call.resp, call.again.resp))
    => /\ call.again.approved = call.approved
       /\ call.again.denied = call.denied

\* two calls were both denied by a response that lists them in one order and
\* again by a response that lists them in the other order
C19_Witness ==
    /\ call.op = "applyApprovalDecisionAgain"
    /\ Len(call.functionCalls) = 2
    /\ call.resp # NilResp
    /\ call.again.resp # NilResp
    /\ call.resp.Denied = <<call.functionCalls[1].CallID, call.functionCalls[2].CallID>>
    /\ call.again.resp.Denied = <<call.functionCalls[2].CallID, call.functionCalls[1].CallID>>
    /\ call.functionCalls[1].CallID # call.functionCalls[2].CallID
    /\ Len(call.denied) = 2
    /\ call.again.denied = call.denied

----------------------------------------------------------------------------
(* Claims about escalation (SpecEscalation) *)

\* the outputs of the model that contain a denial keyword in some case:
\* "Permission denied", "SECCOMP", "sandboxed", "rm: Operation not
\* permitted", "Read-only file system", "xlandLOCKx", "failed to write file"
DenialOutputs ==
    {OutPermissionDenied, OutSeccompUpper, OutSandboxed, OutOperationNotPermitted,
     OutReadOnly, OutLandlockInside, OutFailedToWrite}

\* the result has success=false and an output with a denial keyword
Qualifies(result) ==
    /\ result.Success = BoolPtr(FALSE)
    /\ result.Content \in DenialOutputs

\* the results the handler was called with that qualify, by position
Qualifying == {i \in 1..Len(call.toolResults) : Qualifies(call.toolResults[i])}

\* the positions of the escalation requests that carry the call id
RequestsOf(callID) ==
    {j \in 1..Len(call.PendingEscalations) : call.PendingEscalations[j].CallID = callID}

\* C20: an escalation request is created for a tool result if and only if
\* the result has success=false and its content contains, in any case, one
\* of the seven denial keywords; when no result qualifies, the function
\* returns the results unchanged without changing the phase or waiting.
C20_EscalationTrigger ==
    /\ call.op = "await" =>
          /\ Qualifying # {}
          /\ Len(call.PendingEscalations) = Cardinality(Qualifying)
          /\ \A i \in 1..Len(call.toolResults) :
                IF i \in Qualifying
                THEN /\ Cardinality(RequestsOf(call.toolResults[i].CallID)) = 1
                     /\ \A j \in RequestsOf(call.toolResults[i].CallID) :
                           call.PendingEscalations[j] =
                              [CallID |-> call.toolResults[i].CallID,
                               ToolName |-> call.functionCalls[i].Name,
                               Arguments |-> call.functionCalls[i].Arguments,
                               Output |-> call.toolResults[i].Content,
                               Reason |-> "command failed in sandbox"]
                ELSE RequestsOf(call.toolResults[i].CallID) = {}
    /\ (call.op \in {"returned", "failed"} /\ call.waited) => Qualifying # {}
    /\ (call.op = "returned" /\ ~call.waited) =>
          /\ Qualifying = {}
          /\ call.ret = call.toolResults
          /\ call.Phase = PhaseToolExecuting
          /\ call.PendingEscalations = <<>>
          /\ ~call.EscalationReceived
    /\ Qualifying = {} => call.op \in {"input", "returned"}

\* of two failed results the first says "Permission denied" and the second
\* "permission  denied" with two spaces: the workflow waits for a decision on
\* the first only
C20_Witness ==
    /\ call.op = "await"
    /\ Len(call.toolResults) = 2
    /\ call.toolResults[1].Content = OutPermissionDenied
    /\ call.toolResults[1].Success = BoolPtr(FALSE)
    /\ call.toolResults[2].Content = OutTwoSpaces
    /\ call.toolResults[2].Success = BoolPtr(FALSE)
    /\ Len(call.PendingEscalations) = 1
    /\ call.PendingEscalations[1].CallID = call.toolResults[1].CallID
    /\ call.Phase = PhaseEscalationPending

\* the handler returned after it waited for a decision
ReturnedAfterWait == call.op = "returned" /\ call.waited

\* the user's response was read: it arrived, is not nil, and neither an
\* interrupt nor a shutdown was requested
ResponseRead ==
    /\ call.EscalationReceived
    /\ call.EscalationResponse # NilResp
    /\ ~call.Interrupted
    /\ ~call.ShutdownRequested

\* the results that were escalated and that the user approved, by position
ApprovedEscalations ==
    IF ResponseRead
    THEN {i \in Qualifying : call.toolResults[i].CallID \in IDSet(call.EscalationResponse.Approved)}
    ELSE {}

\* how many times the tool of the i-th result was run again
AttemptsOf(i) == Cardinality({k \in 1..Len(call.attempts) : call.attempts[k] = i})

\* C21: when the user approves an escalated call, its tool is run again
\* exactly once and the result of that run, when it gives one, replaces the
\* failed result at the same index; every result that was not escalated or
\* not approved is returned unchanged; the returned list has the length and
\* the call order of the input.
C21_Replacement ==
    ReturnedAfterWait =>
       /\ Len(call.ret) = Len(call.toolResults)
       /\ \A i \in 1..Len(call.toolResults) :
             /\ call.ret[i].CallID = call.toolResults[i].CallID
             /\ IF i \in ApprovedEscalations
                THEN /\ AttemptsOf(i) = 1
                     /\ call.ret[i] = IF ~call.re[i].err /\ call.re[i].results # <<>>
                                      THEN call.re[i].results[1]
                                      ELSE call.toolResults[i]
                ELSE /\ AttemptsOf(i) = 0
                     /\ call.ret[i] = call.toolResults[i]

\* two tools failed with "Permission denied"; the user approved the first,
\* which ran again and succeeded: its new result stands at index 1 and the
\* second result is the original one
C21_Witness ==
    /\ ReturnedAfterWait
    /\ Len(call.toolResults) = 2
    /\ Qualifying = {1, 2}
    /\ ResponseRead
    /\ call.EscalationResponse.Approved = <<call.toolResults[1].CallID>>
    /\ call.attempts = <<1>>
    /\ ~call.re[1].err
    /\ call.re[1].results # <<>>
    /\ call.ret[1] = call.re[1].results[1]
    /\ call.ret[1].Success = BoolPtr(TRUE)
    /\ call.ret[2] = call.toolResults[2]

\* C22: a tool is run again only if its result was escalated in this round
\* and the response lists its call id as approved; when the user approves
\* none of the escalated calls, sends a nil response, or the wait ends by
\* an interrupt or a shutdown, no tool is run again and the original results
\* are returned.
C22_Declinable ==
    /\ \A k \in 1..Len(call.attempts) :
          /\ call.attempts[k] \in Qualifying
          /\ ResponseRead
          /\ call.toolResults[call.attempts[k]].CallID \in IDSet(call.EscalationResponse.Approved)
    /\ (ReturnedAfterWait /\ ApprovedEscalations = {}) =>
          /\ call.attempts = <<>>
          /\ call.ret = call.toolResults
    /\ call.op # "returned" => call.attempts = <<>>

\* two tools failed with "Permission denied" and the user denied both: the
\* original results were returned and nothing ran again
C22_Witness ==
    /\ ReturnedAfterWait
    /\ Len(call.toolResults) = 2
    /\ Qualifying = {1, 2}
    /\ ResponseRead
    /\ call.EscalationResponse.Approved = <<>>
    /\ call.EscalationResponse.Denied = <<call.toolResults[1].CallID, call.toolResults[2].CallID>>
    /\ call.attempts = <<>>
    /\ call.ret = call.toolResults

----------------------------------------------------------------------------
(* Claims about the gates that wait for the user (SpecGates, SpecUserInput) *)

\* a handler waits in escalation_pending or in user_input_pending
Waiting ==
    /\ call.op = "await"
    /\ \/ call.fn = "handleOnFailureEscalation" /\ call.Phase = PhaseEscalationPending
       \/ call.fn = "handleRequestUserInput" /\ call.Phase = PhaseUserInputPending

\* the handler returned and its pending list or request is cleared
ReturnedCleared ==
    /\ call.op = "returned"
    /\ call.fn = "handleOnFailureEscalation" => call.PendingEscalations = <<>>
    /\ call.fn = "handleRequestUserInput" => call.PendingUserInputReq = NilReq

\* C23: if an interrupt or a shutdown is requested while a handler waits in
\* escalation_pending or user_input_pending, the handler eventually returns
\* with its pending escalations or pending request cleared, whether or not a
\* response of the user ever arrives.
C23_InterruptUnblocks ==
    (Waiting /\ (call.Interrupted \/ call.ShutdownRequested)) ~> ReturnedCleared

\* a request_user_input call returned after an interrupt although no
\* response of the user arrived
C23_Witness ==
    /\ call.fn = "handleRequestUserInput"
    /\ call.op = "returned"
    /\ call.waited
    /\ call.Interrupted
    /\ ~call.UserInputQReceived
    /\ call.PendingUserInputReq = NilReq

\* a handler returned from a wait during which an interrupt or a shutdown
\* was requested
InterruptedReturn(fn) ==
    /\ call.fn = fn
    /\ call.op = "returned"
    /\ call.waited
    /\ call.Interrupted \/ call.ShutdownRequested

----------------------------------------------------------------------------
(* Claims about update_plan (SpecPlan) *)

\* the steps of the plan that are in progress
InProgress(plan) == {k \in 1..Len(plan.Steps) : plan.Steps[k].Status = "in_progress"}

\* C28: after any sequence of update_plan calls, valid or not, the plan of
\* the session is unset or has at least one step, every step has a text
\* that is not empty and one of the statuses pending, in_progress and
\* completed, and at most one step is in progress.
C28_PlanInvariant ==
    call.fn = "handleUpdatePlan" =>
       \/ call.Plan = NilPlan
       \/ /\ Len(call.Plan.Steps) >= 1
          /\ \A k \in 1..Len(call.Plan.Steps) :
                /\ call.Plan.Steps[k].Step # ""
                /\ call.Plan.Steps[k].Status \in {"pending", "in_progress", "completed"}
          /\ Cardinality(InProgress(call.Plan)) <= 1

\* a plan with one step in progress was set; a later call with two steps in
\* progress failed and left that plan in place
C28_Witness ==
    /\ call.fn = "handleUpdatePlan"
    /\ call.calls = 2
    /\ call.fc.Arguments = ObjectJSON([plan |-> ArrayVal(<<PlanArg("read", "in_progress"),
                                                            PlanArg("write", "in_progress")>>)])
    /\ call.out.Output.Success = FALSE
    /\ call.Plan # NilPlan
    /\ call.Plan = call.prev
    /\ Cardinality(InProgress(call.Plan)) = 1

----------------------------------------------------------------------------
(* Claims about the outputs of the gate and intercept paths (SpecPairing) *)

\* the forbidden outputs of a classification: each carries the id of a call
\* of the batch, and a call has one if the policy forbids it and none
\* otherwise
PairedForbidden ==
    Classified =>
       /\ \A j \in 1..Len(call.forbidden) :
             /\ call.forbidden[j].Type = "function_call_output"
             /\ \E i \in BatchIndexes : call.functionCalls[i].CallID = call.forbidden[j].CallID
       /\ \A i \in BatchIndexes :
             Cardinality(ForbiddenOf(call.functionCalls[i].CallID))
                = IF PolicyForbids(call.functionCalls[i]) THEN 1 ELSE 0

\* the denied outputs of a decision: each carries the id of a call of the
\* batch, and there is one for each call with a denied id and none otherwise
PairedDenied ==
    call.op = "applyApprovalDecision" =>
       /\ \A j \in 1..Len(call.denied) :
             /\ call.denied[j].Type = "function_call_output"
             /\ WithID(call.functionCalls, call.denied[j].CallID) # {}
       /\ \A id \in DecisionIDs :
             Cardinality(WithID(call.denied, id))
                = IF id \in DeniedIDs(call.resp)
                  THEN Cardinality(WithID(call.functionCalls, id)) ELSE 0

\* an update_plan call has one output, with its call id
PairedPlan ==
    call.op = "handleUpdatePlan" =>
       /\ call.out.Type = "function_call_output"
       /\ call.out.CallID = call.fc.CallID

\* a request_user_input call whose handler returned has one output, with
\* its call id
PairedUserInput ==
    (call.fn = "handleRequestUserInput" /\ call.op = "returned") =>
       /\ call.out # NoItem
       /\ call.out.Type = "function_call_output"
       /\ call.out.CallID = call.fc.CallID

\* C25 as stated: handleRequestUserInput gives the call an output with its
\* call id on every exit path.
C25_Original ==
    /\ PairedForbidden
    /\ PairedDenied
    /\ PairedPlan
    /\ (call.fn = "handleRequestUserInput" /\ call.op \in {"returned", "failed"}) =>
          /\ call.out # NoItem
          /\ call.out.CallID = call.fc.CallID

\* C25: every output of the classification (forbidden), of the approval
\* decision (denied), of handleUpdatePlan and of handleRequestUserInput
\* carries the call id of a function call of the batch, and each call these
\* paths handle gets exactly one output; the exception is the exit of
\* handleRequestUserInput on a failed wait, which returns an error and no
\* output.
C25_Pairing ==
    /\ PairedForbidden
    /\ PairedDenied
    /\ PairedPlan
    /\ PairedUserInput
    /\ (call.fn = "handleRequestUserInput" /\ call.op = "failed") => call.out = NoItem

\* a request_user_input call with two questions was answered: its one output
\* carries its call id and the answers
C25_Witness ==
    /\ call.fn = "handleRequestUserInput"
    /\ call.op = "returned"
    /\ call.fc.Arguments = ObjectJSON([questions |-> ArrayVal(<<GoodQuestion, OtherQuestion>>)])
    /\ call.UserInputQReceived
    /\ ~call.Interrupted
    /\ ~call.ShutdownRequested
    /\ call.out.CallID = call.fc.CallID
    /\ call.out.Output.Success = TRUE
    /\ call.out.Output.Content = <<"json", [Answers |-> <<"yes">>]>>

----------------------------------------------------------------------------
(* Claims about the order of the outputs of a batch (SpecOrder) *)

\* the items stand in the order of the calls they belong to: they can be
\* matched to calls with their call ids, one call each, at increasing
\* positions
InCallOrder(items, calls) ==
    \E f \in [1..Len(items) -> 1..Len(calls)] :
       /\ \A j \in 1..Len(items) : calls[f[j]].CallID = items[j].CallID
       /\ \A j, k \in 1..Len(items) : j < k => f[j] < f[k]

\* C26: the forbidden outputs and the calls left pending by the
\* classification, and the denied outputs and the approved calls of a
\* decision, stand in the order of the function calls of the batch; the
\* results handleOnFailureEscalation returns are as many as it was given
\* and the result at each index carries the call id of the result it was
\* given at that index, whether or not the call was run again.
C26_OutputOrder ==
    /\ Classified =>
          /\ InCallOrder(call.forbidden, call.functionCalls)
          /\ InCallOrder(call.pending, call.functionCalls)
    /\ call.op = "applyApprovalDecision" =>
          /\ InCallOrder(call.denied, call.functionCalls)
          /\ InCallOrder(call.approved, call.functionCalls)
    /\ (call.fn = "handleOnFailureEscalation" /\ call.op = "returned") =>
          /\ Len(call.ret) = Len(call.toolResults)
          /\ \A i \in 1..Len(call.ret) :
                /\ call.ret[i].CallID = call.toolResults[i].CallID
                /\ call.ret[i].CallID = call.functionCalls[i].CallID

\* the batch holds call 2 before call 1 and the response lists call 1
\* before call 2 as denied: the denied outputs follow the batch, call 2
\* first
C26_Witness ==
    /\ call.op = "applyApprovalDecision"
    /\ Len(call.functionCalls) = 2
    /\ call.functionCalls[1].CallID = CallIDAt(2)
    /\ call.functionCalls[2].CallID = CallIDAt(1)
    /\ call.resp # NilResp
    /\ call.resp.Denied = <<CallIDAt(1), CallIDAt(2)>>
    /\ Len(call.denied) = 2
    /\ call.denied[1].CallID = CallIDAt(2)
    /\ call.denied[2].CallID = CallIDAt(1)

----------------------------------------------------------------------------
(* Claims about the log as the CLI renders it (SpecRender) *)

\* the log of the session, also while a continuation hands it on
SessionLog == IF call.running THEN call.log ELSE call.carried

\* the seqs of the log strictly increase
SeqIncreasing(log) == \A j, k \in 1..Len(log) : j < k => log[j].Seq < log[k].Seq

\* C27: the seqs of the log strictly increase, also across a continuation;
\* what the CLI has rendered is at every moment the first entries of the
\* log, each once and in the order of the log, it includes every entry of
\* every poll result the main loop has received, and lastRenderedSeq is the
\* seq of the last rendered entry.
C27_RenderedInLogOrder ==
    /\ SeqIncreasing(SessionLog)
    /\ Len(call.rendered) <= Len(SessionLog)
    /\ call.rendered = SubSeq(SessionLog, 1, Len(call.rendered))
    /\ call.seen <= Len(call.rendered)
    /\ call.lastRenderedSeq = IF call.rendered = <<>> THEN InitialLastRenderedSeq
                               ELSE call.rendered[Len(call.rendered)].Seq

\* the workflow continued twice; the CLI rendered the three entries of the
\* log, and a result of an earlier poll with one entry is still on its way
C27_Witness ==
    /\ call.continuations = 2
    /\ call.running
    /\ Len(call.log) = 3
    /\ call.rendered = call.log
    /\ call.seen = 3
    /\ \E result \in call.pollCh : ~result.Err /\ Len(result.Items) = 1

----------------------------------------------------------------------------
(* Claims about context compaction (SpecCompaction) *)

\* effectiveAutoCompactLimit has returned
LimitReturned == call.fn = "effectiveAutoCompactLimit" /\ call.op = "returned"

\* C29: effectiveAutoCompactLimit returns 0 when the configured limit is 0,
\* the configured limit when the context window is 0, and otherwise the
\* smaller of the configured limit and nine tenths of the context window
\* (rounded down); configured 200000 with window 128000 gives 115200,
\* configured 80000 gives 80000, configured 100000 with window 0 gives
\* 100000.
C29_EffectiveLimit ==
    LimitReturned =>
       LET limit == call.AutoCompactTokenLimit
           window == call.ContextWindow
       IN /\ limit = 0 => call.ret = 0
          /\ (limit # 0 /\ window = 0) => call.ret = limit
          /\ (limit # 0 /\ window # 0) =>
                /\ call.ret <= limit
                /\ 10 * call.ret <= 9 * window
                /\ call.ret = limit \/ 10 * (call.ret + 1) > 9 * window
          /\ (limit = 200000 /\ window = 128000) => call.ret = 115200
          /\ (limit = 80000 /\ window = 128000) => call.ret = 80000
          /\ (limit = 100000 /\ window = 0) => call.ret = 100000

\* configured 200000 with a window of 128000: the limit is clamped to 115200
C29_Witness ==
    /\ LimitReturned
    /\ call.AutoCompactTokenLimit = 200000
    /\ call.ContextWindow = 128000
    /\ call.ret = 115200

\* buildCompactedHistory has returned
HistoryReturned == call.fn = "buildCompactedHistory" /\ call.op = "returned"

\* C30: for every summary and every list of retained items the history
\* buildCompactedHistory returns has 2 + (number of retained items) items;
\* the first is a compaction marker, the second an assistant_message whose
\* content contains "Another language model started" and the summary, and
\* the items after it are the retained items in their order.
C30_CompactedStructure ==
    HistoryReturned =>
       /\ Len(call.ret) = 2 + Len(call.recentItems)
       /\ call.ret[1].Type = ItemTypeCompaction
       /\ call.ret[2].Type = ItemTypeAssistantMessage
       /\ Contains(call.ret[2].Content, <<"Another language model started">>)
       /\ Contains(call.ret[2].Content, call.summary)
       /\ \A i \in 1..Len(call.recentItems) : call.ret[2 + i] = call.recentItems[i]

\* a summary of one word and two retained items, the first of them an
\* earlier compaction marker: the new marker and the summary stand before
\* both
C30_Witness ==
    /\ HistoryReturned
    /\ call.summary = <<"alpha">>
    /\ Len(call.recentItems) = 2
    /\ call.recentItems[1].Type = ItemTypeCompaction
    /\ call.recentItems[2].Type = ItemTypeUserMessage
    /\ Len(call.ret) = 4
    /\ call.ret[1] = HistoryItem(ItemTypeCompaction, <<"context_compacted">>)
    /\ call.ret[3] = call.recentItems[1]
    /\ call.ret[4] = call.recentItems[2]

----------------------------------------------------------------------------
(* Claims about the recency of a session write_stdin has used (SpecStore) *)

\* the write_stdin activity w got its session from the store and is
\* collecting its output
Collecting(w) == stdin[w].pc = "collect"

\* C31 as stated: Store.Get updates LastUsed, so the session a write_stdin
\* call has just got from the store is among the most recently used and no
\* eviction closes it while the call collects its output.
C31_Original ==
    \A w \in StdinProcs : Collecting(w) => ~heap[stdin[w].sess].closed

----------------------------------------------------------------------------
(* Claims about malformed arguments of intercepted tools (SpecIntercepts) *)

\* the plan array of the arguments, empty when there is none
PlanArray(argsJSON) ==
    IF "plan" \in DOMAIN argsJSON.obj THEN argsJSON.obj["plan"].val ELSE <<>>

\* update_plan arguments that are not valid: not JSON, no plan entries, an
\* entry without text or with an unknown status, two entries in progress
MalformedPlanArgs(argsJSON) ==
    \/ argsJSON.json = "invalid"
    \/ /\ argsJSON.json = "object"
       /\ LET pl == PlanArray(argsJSON) IN
          \/ pl = <<>>
          \/ \E i \in 1..Len(pl) : pl[i].step = ""
          \/ \E i \in 1..Len(pl) : pl[i].status \notin {"pending", "in_progress", "completed"}
          \/ Cardinality({i \in 1..Len(pl) : pl[i].status = "in_progress"}) > 1

\* the questions of the arguments, none when there are none
QuestionArray(argsJSON) ==
    IF "questions" \in DOMAIN argsJSON.obj THEN argsJSON.obj["questions"].val ELSE <<>>

\* request_user_input arguments that are not valid: not JSON, no questions,
\* more than 4, a question without id, text, options or with an option
\* without label
MalformedUserInputArgs(argsJSON) ==
    \/ argsJSON.json = "invalid"
    \/ /\ argsJSON.json = "object"
       /\ LET qs == QuestionArray(argsJSON) IN
          \/ qs = <<>>
          \/ Len(qs) > 4
          \/ \E i \in 1..Len(qs) :
                \/ qs[i].id = ""
                \/ qs[i].question = ""
                \/ qs[i].options = <<>>
                \/ \E j \in 1..Len(qs[i].options) : qs[i].options[j].label = ""

\* C32: an update_plan call with malformed arguments returns an output with
\* success=false and leaves the plan as it was; a request_user_input call
\* with malformed arguments returns an output with success=false in its
\* first step, without waiting, and leaves the phase, the pending request
\* and the response fields as they were.
C32_MalformedLeavesState ==
    [][/\ (call.fn = "handleUpdatePlan" /\ call'.fn = "handleUpdatePlan"
           /\ call'.calls = call.calls + 1 /\ MalformedPlanArgs(call'.fc.Arguments)) =>
             /\ call'.out.Type = "function_call_output"
             /\ call'.out.Output.Success = FALSE
             /\ call'.Plan = call.Plan
       /\ (call.fn = "handleRequestUserInput" /\ call.op = "input"
           /\ MalformedUserInputArgs(call.fc.Arguments)) =>
             /\ call'.op = "returned"
             /\ call'.out # NoItem
             /\ call'.out.Type = "function_call_output"
             /\ call'.out.Output.Success = FALSE
             /\ ~call'.waited
             /\ call'.Phase = call.Phase
             /\ call'.Phase # PhaseUserInputPending
             /\ call'.PendingUserInputReq = NilReq
             /\ call'.UserInputQReceived = call.UserInputQReceived
             /\ call'.UserInputQResponse = call.UserInputQResponse]_vars

\* the session has a plan and the last update_plan call named two steps in
\* progress: it failed and the plan is the one of the call before
C32_Witness ==
    /\ call.fn = "handleUpdatePlan"
    /\ call.op = "handleUpdatePlan"
    /\ call.prev # NilPlan
    /\ call.fc.Arguments = ObjectJSON([plan |-> ArrayVal(<<PlanArg("read", PlanStepInProgress),
                                                           PlanArg("write", PlanStepInProgress)>>)])
    /\ call.out.Output.Success = FALSE
    /\ call.Plan = call.prev

----------------------------------------------------------------------------
(* Claims about turn ids (SpecTurns) *)

\* no two turns of the session have the same id
DistinctTurnIDs ==
    \A j, k \in 1..Len(call.turns) : j # k => call.turns[j].id # call.turns[k].id

\* C33 as stated: the id of a turn is "turn-" followed by the value the
\* counter had before it was incremented.
C33_Original ==
    /\ DistinctTurnIDs
    /\ \A k \in 1..Len(call.turns) : call.turns[k].id = TurnIDOf(call.turns[k].before)

\* C33: the id of a turn is "turn-" followed by the value of the turn
\* counter after it was incremented, so the first turn is "turn-1"; over
\* the turns of a session, continuations included, no two turns get the
\* same id.
C33_TurnIDs ==
    /\ DistinctTurnIDs
    /\ \A k \in 1..Len(call.turns) :
          /\ call.turns[k].id = TurnIDOf(call.turns[k].before + 1)
          /\ call.turns[k].id = TurnIDOf(k)

\* eleven turns and two continuations: the first turn is "turn-1", the tenth
\* and the eleventh are "turn-10" and "turn-11"
C33_Witness ==
    /\ call.fn = "nextTurnID"
    /\ call.running
    /\ call.continuations = 2
    /\ Len(call.turns) = 11
    /\ call.turns[1].id = <<"turn-", 1>>
    /\ call.turns[10].id = <<"turn-", 1, 0>>
    /\ call.turns[11].id = <<"turn-", 1, 1>>

----------------------------------------------------------------------------
(* Claims about calls the response does not approve (SpecDecision) *)

\* the call ids the response lists as approved; none without a response
ListedApproved(resp) == IF resp = NilResp THEN {} ELSE IDSet(resp.Approved)

\* C34 as stated: a call proceeds only if the response lists its call id as
\* approved; a call listed in neither list, and every call of a batch
\* handled without a response, does not proceed.
C34_Original ==
    call.op = "applyApprovalDecision" =>
       \A k \in 1..Len(call.approved) :
          call.approved[k].CallID \in ListedApproved(call.resp)

----------------------------------------------------------------------------
(* Claims about calls the gate cannot judge (SpecClassify) *)

\* the arguments are not JSON
Unparsable(fc) == fc.Arguments.json = "invalid"

\* the arguments hold no command
LacksCommand(fc) ==
    fc.Arguments.json = "object" /\ "command" \notin DOMAIN fc.Arguments.obj

\* the command is an empty array or an empty string
EmptyCommand(fc) ==
    /\ fc.Arguments.json = "object"
    /\ "command" \in DOMAIN fc.Arguments.obj
    /\ fc.Arguments.obj["command"].val = <<>>

\* the command is an array with an element that is not a string
NonStringElement(fc) ==
    /\ fc.Arguments.json = "object"
    /\ "command" \in DOMAIN fc.Arguments.obj
    /\ fc.Arguments.obj["command"].type = "array"
    /\ \E k \in 1..Len(fc.Arguments.obj["command"].val) :
          fc.Arguments.obj["command"].val[k].type # "string"

\* the tool names the gate has a rule for
GateTools ==
    {"read_file", "list_dir", "grep_files", "request_user_input", "update_plan",
     "shell", "shell_command", "write_file", "apply_patch"} \cup CollabTools

\* a call the gate cannot judge: a shell or shell_command call with
\* arguments it cannot read, or a call to a tool it does not know
CannotJudge(fc) ==
    \/ /\ fc.Name \in {"shell", "shell_command"}
       /\ Unparsable(fc) \/ LacksCommand(fc) \/ EmptyCommand(fc)
    \/ fc.Name = "shell" /\ NonStringElement(fc)
    \/ fc.Name \notin GateTools

\* C35: in approval mode unless-trusted every shell or shell_command call
\* whose arguments cannot be parsed, lack a command, have an empty command
\* or hold a non-string element, and every call to a tool the gate does not
\* know, is left pending for approval, whatever the exec policy says: it is
\* neither auto-approved nor answered as forbidden.
C35_FailClosed ==
    (Classified /\ call.mode = ApprovalUnlessTrusted) =>
       \A i \in BatchIndexes :
          CannotJudge(call.functionCalls[i]) =>
             /\ Cardinality(PendingOf(call.functionCalls[i].CallID)) = 1
             /\ ForbiddenOf(call.functionCalls[i].CallID) = {}

\* a policy that allows every program; a shell call whose command holds a
\* number and a call to a tool the gate does not know are both pending
C35_Witness ==
    /\ Classified
    /\ call.mode = ApprovalUnlessTrusted
    /\ call.policyRules.src = "rules"
    /\ \A p \in Programs : call.policyRules.mgr[p].Decision = DecisionAllow
    /\ Len(call.functionCalls) = 2
    /\ call.functionCalls[1].Name = "shell"
    /\ NonStringElement(call.functionCalls[1])
    /\ call.functionCalls[2].Name = "mystery_tool"
    /\ Len(call.pending) = 2
    /\ call.pending[1].Reason = "command array contains non-string element"
    /\ call.pending[2].Reason = "unknown tool"

----------------------------------------------------------------------------
(* Claims about the turn status an observer reads (SpecStatus) *)

\* the handler is suspended: in workflow.Await or in an activity call
Suspended == call.op \in {"await", "reexecute"}

\* C36: wherever the orchestrator is suspended, the phase is
\* escalation_pending exactly when there are pending escalations, and
\* user_input_pending exactly when a user-input request is pending.
C36_Original ==
    Suspended =>
       /\ call.fn = "handleOnFailureEscalation" =>
             /\ call.Phase = PhaseEscalationPending <=> call.PendingEscalations # <<>>
             /\ call.Phase # PhaseUserInputPending
       /\ call.fn = "handleRequestUserInput" =>
             /\ call.Phase = PhaseUserInputPending <=> call.PendingUserInputReq # NilReq
             /\ call.Phase # PhaseEscalationPending

----------------------------------------------------------------------------
(* Claims about the reserved ids of the store *)

\* the ids of the stored sessions
StoredIDs == DOMAIN sessions

\* an exec_command activity is between AllocateID and its last store call
ExecInFlight == \E e \in ExecProcs : exec[e].pc # "idle"

\* C37: the id of every stored session is reserved at all times, and
\* whenever no exec_command is in flight the reserved ids are the ids of the
\* stored sessions.
C37_Original ==
    /\ StoredIDs \subseteq reserved
    /\ ~ExecInFlight => reserved = StoredIDs

----------------------------------------------------------------------------
(* Claims about the choice of the victim (SpecStore) *)

\* the store as Store(session) of activity e finds it after the insertion
WithInserted(e) == MapPut(sessions, exec[e].processID, exec[e].sess)

\* activity e is about to call Store and the store will overflow
Overflowing(e) ==
    /\ exec[e].pc = "store"
    /\ Cardinality(DOMAIN WithInserted(e)) > MaxSessions

\* the ids that Store(session) of activity e can evict
Victims(e) == {r.victim : r \in StoreResults(exec[e].sess)}

\* no two sessions of the store share their LastUsed
DistinctLastUsed(ss) ==
    \A a, b \in DOMAIN ss : a # b => heap[ss[a]].LastUsed # heap[ss[b]].LastUsed

\* C39 as stated: the victim of an overflowing Store is determined by the
\* (id, LastUsed, exited) values of the stored sessions, also when several
\* sessions share their LastUsed.
C39_Original ==
    \A e \in ExecProcs : Overflowing(e) => Cardinality(Victims(e)) = 1

\* C39: the victim of an overflowing Store is determined by the (id,
\* LastUsed, exited) values of the stored sessions when their LastUsed values
\* are pairwise distinct.
C39_DeterministicEviction ==
    \A e \in ExecProcs :
       (Overflowing(e) /\ DistinctLastUsed(WithInserted(e))) =>
          Cardinality(Victims(e)) = 1

\* a Store call that overflows a store of running sessions with distinct
\* LastUsed, the new session being the oldest: it is the only possible victim
C39_Witness ==
    \E e \in ExecProcs :
       /\ Overflowing(e)
       /\ DistinctLastUsed(WithInserted(e))
       /\ \A id \in DOMAIN WithInserted(e) : ~heap[WithInserted(e)[id]].exited
       /\ heap[exec[e].sess].LastUsed < InitialLastUsed(1)
       /\ Victims(e) = {exec[e].processID}

----------------------------------------------------------------------------
(* Claims about the repeat-detection key (SpecKeys) *)

KeysComputed == call.op = "toolCallsKey"

\* how often call c occurs in a batch
Occurrences(batch, c) == Cardinality({i \in 1..Len(batch) : batch[i] = c})

\* the two batches are the same multiset of (name, arguments) pairs
SameMultiset(a, b) == \A c \in KeyCalls : Occurrences(a, c) = Occurrences(b, c)

RECURSIVE KeyBytes(_)
\* the bytes of the names and arguments of a batch and one ':' per call
KeyBytes(batch) ==
    IF batch = <<>> THEN 0
    ELSE Len(Head(batch).Name) + 1 + Len(Head(batch).Arguments) + KeyBytes(Tail(batch))

\* C38 as stated: two batches get the same key only if they are the same
\* multiset of (tool name, arguments) pairs.
C38_Original ==
    (KeysComputed /\ call.keyA = call.keyB) => SameMultiset(call.a, call.b)

\* C38: two batches that are the same multiset of (tool name, arguments)
\* pairs get the same key in whatever order their calls come, and two
\* batches with the same key have the same number of bytes in their names
\* and arguments plus one per call.
C38_KeyOfBatch ==
    KeysComputed =>
       /\ SameMultiset(call.a, call.b) => call.keyA = call.keyB
       /\ call.keyA = call.keyB => KeyBytes(call.a) = KeyBytes(call.b)

\* the same two calls in the two orders, with the same key
C38_Witness ==
    /\ KeysComputed
    /\ Len(call.a) = 2
    /\ Len(call.b) = 2
    /\ call.a[1] # call.a[2]
    /\ call.b[1] = call.a[2]
    /\ call.b[2] = call.a[1]
    /\ call.keyA = call.keyB

----------------------------------------------------------------------------
(* Claims about the CLI's input reader (SpecMainLoop) *)

\* C40: once a poll result has moved the CLI to the input state no later
\* poll result is acted on before the next user input is sent, and at most
\* one readInput goroutine waits for a line at any time.
C40_Original ==
    /\ call.acted = 0
    /\ call.readers <= 1

====
